---- MODULE Spec2Model ----
(***************************************************************************)
(* Score ledger, session recorder and normalization engine of the           *)
(* board-game score tracker (src/backend/server.py).                        *)
(*                                                                          *)
(* The three collections players, teams and game_sessions are sequences of  *)
(* documents in insertion order.  Every request handler is a sequence of    *)
(* awaited storage operations; Step performs one awaited operation of a     *)
(* request and Run performs a handler to completion.  Spec runs every       *)
(* handler to completion before the next one starts (serial requests);      *)
(* SpecAsync interleaves the awaited operations of concurrent requests.     *)
(***************************************************************************)
EXTENDS Integers, Sequences, FiniteSets, TLC

VARIABLES
    groups,     \* db.groups: the set of ids of the stored groups
    players,    \* db.players: sequence of player documents
    teams,      \* db.teams: sequence of team documents
    sessions,   \* db.game_sessions: sequence of session documents
    ids,        \* how many player, team and session ids uuid4 has handed out
    last,       \* serial runs: the request that completed last
    ckpt,       \* history: the ledger as it was before the last create_session
                \* (serial runs) or before the first request (concurrent runs)
    reqs        \* concurrent runs: every request started so far

vars == <<groups, players, teams, sessions, ids, last, ckpt, reqs>>

----------------------------------------------------------------------------
(* Bounds of the model *)

\* sessions recorded in a serial run
MaxSessions == 2
\* requests started in a concurrent run
MaxRequests == 2
\* player ids handed out in a run with CSV uploads
MaxPlayers == 3

GameNames == {"Catan", "Uno"}

\* group ids a request may name: no group "g0" is ever stored
GroupRefs == {"g1", "g0"}

----------------------------------------------------------------------------
(* Documents *)

Player(id, g) ==
    [id |-> id, group_id |-> g, total_score |-> 0, games_played |-> 0]

Team(id, g, pids) ==
    [id |-> id, group_id |-> g, player_ids |-> pids,
     total_score |-> 0, games_played |-> 0]

\* a player document with the fields create_player and update_player read
NamedPlayer(id, g, name, emoji) ==
    [id |-> id, group_id |-> g, player_name |-> name, emoji |-> emoji,
     total_score |-> 0, games_played |-> 0]

PlayerScore(pid, s) == [player_id |-> pid, score |-> s]

TeamScore(tid, s, pids) == [team_id |-> tid, score |-> s, player_ids |-> pids]

\* datetime(year, month, day): midnight of that day
Datetime(year, month, day) == <<year, month, day>>

\* a < b on datetimes
Before(a, b) ==
    \/ a[1] < b[1]
    \/ a[1] = b[1] /\ a[2] < b[2]
    \/ a[1] = b[1] /\ a[2] = b[2] /\ a[3] < b[3]

GameSession(id, g, name, date, ps, ts) ==
    [id |-> id, group_id |-> g, game_name |-> name, game_date |-> date,
     player_scores |-> ps, team_scores |-> ts]

NoSession == GameSession(0, "", "", Datetime(0, 0, 0), <<>>, <<>>)

NoData == [group |-> [id |-> ""], players |-> <<>>, teams |-> <<>>,
           game_sessions |-> <<>>]

----------------------------------------------------------------------------
(* The document store *)

DB == [groups |-> groups, players |-> players, teams |-> teams,
       sessions |-> sessions, ids |-> ids]

\* find_one({"id": id}): the index of the first document with that id, or 0
FindOne(coll, id) ==
    IF \E i \in DOMAIN coll : coll[i].id = id
    THEN CHOOSE i \in DOMAIN coll :
            /\ coll[i].id = id
            /\ \A j \in 1..(i - 1) : coll[j].id # id
    ELSE 0

\* mutant: an update that matches nothing inserts a document (upsert)
IncOneUpsert(coll, id, dscore, dgames) ==
    IF \E i \in DOMAIN coll : coll[i].id = id
    THEN [i \in DOMAIN coll |->
            IF coll[i].id = id /\ \A j \in 1..(i - 1) : coll[j].id # id
            THEN [coll[i] EXCEPT !.total_score = @ + dscore,
                                 !.games_played = @ + dgames]
            ELSE coll[i]]
    ELSE Append(coll, [id |-> id, group_id |-> "", player_ids |-> <<>>,
                       total_score |-> dscore, games_played |-> dgames])

\* update_one({"id": id}, {"$inc": {total_score, games_played}})
IncOne(coll, id, dscore, dgames) ==
    LET i == FindOne(coll, id)
    IN  IF i = 0 THEN coll
        ELSE [coll EXCEPT ![i].total_score = @ + dscore,
                          ![i].games_played = @ + dgames]

\* mutant: the document stays
DeleteOneKeeps(coll, id) == coll

\* delete_one({"id": id})
DeleteOne(coll, id) ==
    LET i == FindOne(coll, id)
    IN  IF i = 0 THEN coll
        ELSE [k \in 1..(Len(coll) - 1) |-> IF k < i THEN coll[k] ELSE coll[k + 1]]

\* delete_many({"group_id": g})
DeleteGroupDocs(coll, g) ==
    LET Keep(d) == d.group_id # g IN SelectSeq(coll, Keep)

\* $pull of a value from a list
Pull(list, v) ==
    LET Keep(x) == x # v IN SelectSeq(list, Keep)

----------------------------------------------------------------------------
(* update_player_team_stats and its mirror in delete_game_session: the      *)
(* awaited $inc operations, in program order.  sign is 1 on create and -1   *)
(* on delete.                                                               *)

\* mutant: the negated score is divided
ScorePerPlayerNegatedFirst(ts, sign) == (sign * ts.score) \div Len(ts.player_ids)

\* score_per_player = score // len(player_ids), then negated on delete
ScorePerPlayer(ts, sign) == sign * (ts.score \div Len(ts.player_ids))

PlayerOps(ps, sign) ==
    [i \in 1..Len(ps) |->
        [coll |-> "players", id |-> ps[i].player_id,
         score |-> sign * ps[i].score, games |-> sign]]

\* mutant: every member gets the whole team score
MemberOpsFullScore(ts, sign) ==
    [k \in 1..Len(ts.player_ids) |->
        [coll |-> "players", id |-> ts.player_ids[k],
         score |-> sign * ts.score, games |-> sign]]

\* if team_score.player_ids: distribute to every id of the stored list
MemberOps(ts, sign) ==
    IF Len(ts.player_ids) = 0 THEN <<>>
    ELSE [k \in 1..Len(ts.player_ids) |->
            [coll |-> "players", id |-> ts.player_ids[k],
             score |-> ScorePerPlayer(ts, sign), games |-> sign]]

TeamOp(ts, sign) ==
    [coll |-> "teams", id |-> ts.team_id,
     score |-> sign * ts.score, games |-> sign]

\* mutant: a team score without members is skipped altogether
RECURSIVE TeamOpsSkipEmpty(_, _)
TeamOpsSkipEmpty(tss, sign) ==
    IF Len(tss) = 0 THEN <<>>
    ELSE (IF Len(Head(tss).player_ids) = 0 THEN <<>>
          ELSE <<TeamOp(Head(tss), sign)>> \o MemberOps(Head(tss), sign))
            \o TeamOpsSkipEmpty(Tail(tss), sign)

RECURSIVE TeamOps(_, _)
TeamOps(tss, sign) ==
    IF Len(tss) = 0 THEN <<>>
    ELSE <<TeamOp(Head(tss), sign)>> \o MemberOps(Head(tss), sign)
            \o TeamOps(Tail(tss), sign)

LedgerOps(sess, sign) ==
    PlayerOps(sess.player_scores, sign) \o TeamOps(sess.team_scores, sign)

\* one awaited update_one of the ledger
ApplyOp(db, op) ==
    IF op.coll = "players"
    THEN [db EXCEPT !.players = IncOne(@, op.id, op.score, op.games)]
    ELSE [db EXCEPT !.teams = IncOne(@, op.id, op.score, op.games)]

----------------------------------------------------------------------------
(* Requests.  A request is the handler's frame: op is the handler, pc the   *)
(* awaited operation it performs next, status the HTTP status once done     *)
(* (0 while running), sess the session the handler holds in memory, data    *)
(* the parsed upload of an import and i the index of the next ledger        *)
(* operation.                                                               *)

Request(op, pc, gid, id, sess, data) ==
    [op |-> op, pc |-> pc, status |-> 0, gid |-> gid, id |-> id,
     sess |-> sess, data |-> data, i |-> 0]

NoRequest == Request("none", "done", "", 0, NoSession, NoData)

Done(r, status) == [r EXCEPT !.pc = "done", !.status = status]

\* POST /game-sessions
CreateSessionRequest(payload) ==
    Request("create_session", "find_group", payload.group_id, 0, payload, NoData)

\* DELETE /game-sessions/{session_id}
DeleteSessionRequest(sid) ==
    Request("delete_session", "find", "", sid, NoSession, NoData)

\* DELETE /players/{player_id}
DeletePlayerRequest(pid) ==
    Request("delete_player", "find", "", pid, NoSession, NoData)

\* POST /groups/{group_id}/import
ImportRequest(g, data) ==
    Request("import", "find_group", g, 0, NoSession, data)

\* POST /players
CreatePlayerRequest(g, name) ==
    Request("create_player", "find_group", g, 0, NoSession,
            [player_name |-> name, emoji |-> "e1"])

\* PUT /players/{player_id}
UpdatePlayerRequest(pid, name, emoji) ==
    Request("update_player", "find", "", pid, NoSession,
            [player_name |-> name, emoji |-> emoji])

\* POST /groups/{group_id}/import-csv
ImportCsvRequest(g, file) ==
    Request("import_csv", "find_group", g, 0, NoSession, [csv |-> file])

\* mutant: the group is not looked up
GroupExistsUnchecked(db, g) == TRUE

\* db.groups.find_one({"id": g}) finds a group
GroupExists(db, g) == g \in db.groups

\* the record id of coll takes the totals it has in snap
WriteBack(coll, snap, id) ==
    [k \in DOMAIN coll |->
        IF coll[k].id = id /\ FindOne(snap, id) # 0
        THEN [coll[k] EXCEPT
                !.total_score = snap[FindOne(snap, id)].total_score,
                !.games_played = snap[FindOne(snap, id)].games_played]
        ELSE coll[k]]

\* mutant: the handler reads the ledger once, when it stores the session,
\* and writes totals computed from that reading instead of sending $inc
CreateStepReadThenSet(db, r) ==
    LET ops == LedgerOps(r.sess, 1)
    IN  CASE r.pc = "find_group" ->
                [db |-> db,
                 r  |-> IF GroupExists(db, r.sess.group_id)
                        THEN [r EXCEPT !.pc = "insert"]
                        ELSE Done(r, 404)]
          [] r.pc = "insert" ->
                LET sid == db.ids.s + 1
                    obj == [r.sess EXCEPT !.id = sid]
                    r1  == [r EXCEPT !.sess = obj, !.id = sid, !.pc = "stats", !.i = 1,
                                     !.data = [players |-> db.players,
                                               teams |-> db.teams,
                                               game_sessions |-> <<>>]]
                IN  [db |-> [db EXCEPT !.sessions = Append(@, obj), !.ids.s = sid],
                     r  |-> IF Len(LedgerOps(obj, 1)) = 0 THEN Done(r1, 200) ELSE r1]
          [] r.pc = "stats" ->
                LET snap == ApplyOp(r.data, ops[r.i])
                    r1   == [r EXCEPT !.data = snap]
                IN  [db |-> [db EXCEPT
                                !.players = WriteBack(@, snap.players, ops[r.i].id),
                                !.teams = WriteBack(@, snap.teams, ops[r.i].id)],
                     r  |-> IF r.i = Len(ops) THEN Done(r1, 200)
                            ELSE [r1 EXCEPT !.i = @ + 1]]

\* create_game_session followed by update_player_team_stats
CreateStep(db, r) ==
    LET ops == LedgerOps(r.sess, 1)
    IN  CASE r.pc = "find_group" ->
                [db |-> db,
                 r  |-> IF GroupExists(db, r.sess.group_id)
                        THEN [r EXCEPT !.pc = "insert"]
                        ELSE Done(r, 404)]
          [] r.pc = "insert" ->
                LET sid == db.ids.s + 1
                    obj == [r.sess EXCEPT !.id = sid]
                    r1  == [r EXCEPT !.sess = obj, !.id = sid, !.pc = "stats", !.i = 1]
                IN  [db |-> [db EXCEPT !.sessions = Append(@, obj), !.ids.s = sid],
                     r  |-> IF Len(LedgerOps(obj, 1)) = 0 THEN Done(r1, 200) ELSE r1]
          [] r.pc = "stats" ->
                [db |-> ApplyOp(db, ops[r.i]),
                 r  |-> IF r.i = Len(ops) THEN Done(r, 200)
                        ELSE [r EXCEPT !.i = @ + 1]]

\* the session with every team score's player_ids replaced by the current
\* player_ids of its team
WithCurrentMembers(db, sess) ==
    [sess EXCEPT !.team_scores =
        [j \in DOMAIN @ |->
            IF FindOne(db.teams, @[j].team_id) = 0 THEN @[j]
            ELSE [@[j] EXCEPT !.player_ids =
                    db.teams[FindOne(db.teams, sess.team_scores[j].team_id)].player_ids]]]

\* mutant: the distribution is reverted over the team's current members
RevertOpsCurrentMembers(db, sess) == LedgerOps(WithCurrentMembers(db, sess), 0 - 1)

\* the $inc operations that revert the session document the handler read:
\* they are computed from that document alone
RevertOps(db, sess) == LedgerOps(sess, 0 - 1)

DeleteSessionStep(db, r) ==
    CASE r.pc = "find" ->
            LET k == FindOne(db.sessions, r.id)
            IN  [db |-> db,
                 r  |-> IF k = 0 THEN Done(r, 404)
                        ELSE IF Len(RevertOps(db, db.sessions[k])) = 0
                        THEN [r EXCEPT !.sess = db.sessions[k], !.pc = "delete"]
                        ELSE [r EXCEPT !.sess = db.sessions[k], !.pc = "stats",
                                       !.i = 1]]
      [] r.pc = "stats" ->
            [db |-> ApplyOp(db, RevertOps(db, r.sess)[r.i]),
             r  |-> IF r.i = Len(RevertOps(db, r.sess)) THEN [r EXCEPT !.pc = "delete"]
                    ELSE [r EXCEPT !.i = @ + 1]]
      [] r.pc = "delete" ->
            [db |-> [db EXCEPT !.sessions = DeleteOne(@, r.id)],
             r  |-> IF FindOne(db.sessions, r.id) = 0 THEN Done(r, 500)
                    ELSE Done(r, 200)]

\* mutant: the member lists of the teams are left as they are
PullFromTeamsKeeps(coll, pid) == coll

\* update_many({"player_ids": pid}, {"$pull": {"player_ids": pid}})
PullFromTeams(coll, pid) ==
    [k \in 1..Len(coll) |-> [coll[k] EXCEPT !.player_ids = Pull(@, pid)]]

\* update_many(..., {"$pull": {"player_scores": {"player_id": pid}}})
PullFromSessions(coll, pid) ==
    LET Keep(e) == e.player_id # pid
    IN  [k \in 1..Len(coll) |->
            [coll[k] EXCEPT !.player_scores = SelectSeq(@, Keep)]]

DeletePlayerStep(db, r) ==
    CASE r.pc = "find" ->
            [db |-> db,
             r  |-> IF FindOne(db.players, r.id) = 0 THEN Done(r, 404)
                    ELSE [r EXCEPT !.pc = "pull_teams"]]
      [] r.pc = "pull_teams" ->
            [db |-> [db EXCEPT !.teams = PullFromTeams(@, r.id)],
             r  |-> [r EXCEPT !.pc = "pull_sessions"]]
      [] r.pc = "pull_sessions" ->
            [db |-> [db EXCEPT !.sessions = PullFromSessions(@, r.id)],
             r  |-> [r EXCEPT !.pc = "delete"]]
      [] r.pc = "delete" ->
            [db |-> [db EXCEPT !.players = DeleteOne(@, r.id)],
             r  |-> IF FindOne(db.players, r.id) = 0 THEN Done(r, 500)
                    ELSE Done(r, 200)]

\* the first insert_many of an import that has documents to insert
NextInsert(r, after) ==
    IF after < 1 /\ Len(r.data.players) > 0 THEN [r EXCEPT !.pc = "insert_players"]
    ELSE IF after < 2 /\ Len(r.data.teams) > 0 THEN [r EXCEPT !.pc = "insert_teams"]
    ELSE IF after < 3 /\ Len(r.data.game_sessions) > 0
    THEN [r EXCEPT !.pc = "insert_sessions"]
    ELSE Done(r, 200)

\* datetime.isoformat() and datetime.fromisoformat(): the string is kept as
\* the text of its date
IsoFormat(date) == [iso |-> date]

FromIsoFormat(text) == text.iso

ImportedPlayers(data, g) ==
    [k \in 1..Len(data.players) |->
        [id |-> data.players[k].id, group_id |-> g,
         total_score |-> data.players[k].total_score,
         games_played |-> data.players[k].games_played]]

ImportedTeams(data, g) ==
    [k \in 1..Len(data.teams) |->
        [id |-> data.teams[k].id, group_id |-> g,
         player_ids |-> data.teams[k].player_ids,
         total_score |-> data.teams[k].total_score,
         games_played |-> data.teams[k].games_played]]

ImportedSessions(data, g) ==
    [k \in 1..Len(data.game_sessions) |->
        [id |-> data.game_sessions[k].id, group_id |-> g,
         game_name |-> data.game_sessions[k].game_name,
         game_date |-> FromIsoFormat(data.game_sessions[k].game_date),
         player_scores |-> data.game_sessions[k].player_scores,
         team_scores |-> data.game_sessions[k].team_scores]]

\* the keys an import file must have
RequiredKeys == {"group", "players", "teams", "game_sessions"}

\* the status of an exception raised inside the try block of an import
\* handler: except json.JSONDecodeError answers 400, except Exception, which
\* catches an HTTPException too, answers 500
Caught(exception) == IF exception = "JSONDecodeError" THEN 400 ELSE 500

\* json.loads and the check of the required keys: the exception raised, ""
\* for none.  A file that is not JSON is the record of its text.
ValidateImport(file) ==
    IF "text" \in DOMAIN file THEN "JSONDecodeError"
    ELSE IF ~(RequiredKeys \subseteq DOMAIN file) THEN "HTTPException"
    ELSE ""

\* import_group_data; reading the upload touches no collection and is taken
\* together with the lookup of the group before it
ImportStep(db, r) ==
    CASE r.pc = "find_group" ->
            [db |-> db,
             r  |-> IF ~GroupExists(db, r.gid) THEN Done(r, 404)
                    ELSE IF ValidateImport(r.data) = ""
                    THEN [r EXCEPT !.pc = "clear_players"]
                    ELSE Done(r, Caught(ValidateImport(r.data)))]
      [] r.pc = "clear_players" ->
            [db |-> [db EXCEPT !.players = DeleteGroupDocs(@, r.gid)],
             r  |-> [r EXCEPT !.pc = "clear_teams"]]
      [] r.pc = "clear_teams" ->
            [db |-> [db EXCEPT !.teams = DeleteGroupDocs(@, r.gid)],
             r  |-> [r EXCEPT !.pc = "clear_sessions"]]
      [] r.pc = "clear_sessions" ->
            [db |-> [db EXCEPT !.sessions = DeleteGroupDocs(@, r.gid)],
             r  |-> NextInsert(r, 0)]
      [] r.pc = "insert_players" ->
            [db |-> [db EXCEPT !.players = @ \o ImportedPlayers(r.data, r.gid)],
             r  |-> NextInsert(r, 1)]
      [] r.pc = "insert_teams" ->
            [db |-> [db EXCEPT !.teams = @ \o ImportedTeams(r.data, r.gid)],
             r  |-> NextInsert(r, 2)]
      [] r.pc = "insert_sessions" ->
            [db |-> [db EXCEPT !.sessions = @ \o ImportedSessions(r.data, r.gid)],
             r  |-> NextInsert(r, 3)]

\* a line of an uploaded CSV file: its text, and for a data row the number
\* of its cells and the cells the parser reads
Line(text) == [text |-> text, cells |-> 1, name |-> text, total_score |-> 0,
               games_played |-> 0, numeric |-> FALSE]

PlayerRow(name, total_score, games_played, numeric) ==
    [text |-> "row", cells |-> 6, name |-> name, total_score |-> total_score,
     games_played |-> games_played, numeric |-> numeric]

\* csv_content.strip().split('\n'): no content gives one empty line
SplitLines(file) == IF Len(file) = 0 THEN <<Line("")>> ELSE file

\* the first index from i on of a line that is empty, or one past the end
RECURSIVE SectionEnd(_, _)
SectionEnd(lines, i) ==
    IF i > Len(lines) \/ lines[i].text = "" THEN i ELSE SectionEnd(lines, i + 1)

\* parse_csv for files whose only section is PLAYERS: a line that opens no
\* section is skipped; int() of a cell that is no number raises ValueError
RECURSIVE ParseCsv(_, _, _)
ParseCsv(lines, i, data) ==
    IF i > Len(lines) \/ data.error # "" THEN data
    ELSE IF lines[i].text = "PLAYERS"
    THEN LET end == SectionEnd(lines, i + 2)
             rows == SelectSeq(SubSeq(lines, i + 2, end - 1),
                               LAMBDA l : l.cells >= 6)
         IN  ParseCsv(lines, end,
                IF \E k \in DOMAIN rows : ~rows[k].numeric
                THEN [data EXCEPT !.error = "ValueError"]
                ELSE [data EXCEPT !.players = @ \o
                        [k \in DOMAIN rows |->
                            [id |-> 0, total_score |-> rows[k].total_score,
                             games_played |-> rows[k].games_played]]])
    ELSE ParseCsv(lines, i + 1, data)

\* import_group_csv: the lookup of the group and parse_csv, whose players
\* get fresh uuid4 ids; from the first delete_many on it is ImportStep
ImportCsvStep(db, r) ==
    IF r.pc # "find_group" THEN ImportStep(db, r)
    ELSE LET parsed == ParseCsv(SplitLines(r.data.csv), 1,
                                [error |-> "", players |-> <<>>])
             data == [group |-> NoData.group,
                      players |-> [k \in DOMAIN parsed.players |->
                                    [parsed.players[k] EXCEPT !.id = db.ids.p + k]],
                      teams |-> <<>>, game_sessions |-> <<>>]
         IN  IF ~GroupExists(db, r.gid) THEN [db |-> db, r |-> Done(r, 404)]
             ELSE IF parsed.error # ""
             THEN [db |-> db, r |-> Done(r, Caught(parsed.error))]
             ELSE [db |-> [db EXCEPT !.ids.p = @ + Len(data.players)],
                   r  |-> [r EXCEPT !.data = data, !.pc = "clear_players"]]

\* find_one({"player_name": name, "group_id": g}) finds a player whose id is
\* not except
NameTaken(db, g, name, except) ==
    \E k \in DOMAIN db.players :
        /\ db.players[k].player_name = name
        /\ db.players[k].group_id = g
        /\ db.players[k].id # except

\* create_player
CreatePlayerStep(db, r) ==
    CASE r.pc = "find_group" ->
            [db |-> db,
             r  |-> IF GroupExists(db, r.gid) THEN [r EXCEPT !.pc = "find_name"]
                    ELSE Done(r, 404)]
      [] r.pc = "find_name" ->
            [db |-> db,
             r  |-> IF NameTaken(db, r.gid, r.data.player_name, 0) THEN Done(r, 400)
                    ELSE [r EXCEPT !.pc = "insert"]]
      [] r.pc = "insert" ->
            LET pid == db.ids.p + 1
            IN  [db |-> [db EXCEPT
                            !.players = Append(@, NamedPlayer(pid, r.gid,
                                                    r.data.player_name,
                                                    r.data.emoji)),
                            !.ids.p = pid],
                 r  |-> Done([r EXCEPT !.id = pid], 200)]

\* update_player; gid holds the group_id of the document read first, and the
\* name is looked up only if it differs from the name of that document
UpdatePlayerStep(db, r) ==
    CASE r.pc = "find" ->
            LET k == FindOne(db.players, r.id)
            IN  [db |-> db,
                 r  |-> IF k = 0 THEN Done(r, 404)
                        ELSE IF r.data.player_name # db.players[k].player_name
                        THEN [r EXCEPT !.gid = db.players[k].group_id,
                                       !.pc = "find_name"]
                        ELSE [r EXCEPT !.gid = db.players[k].group_id,
                                       !.pc = "update"]]
      [] r.pc = "find_name" ->
            [db |-> db,
             r  |-> IF NameTaken(db, r.gid, r.data.player_name, r.id)
                    THEN Done(r, 400)
                    ELSE [r EXCEPT !.pc = "update"]]
      [] r.pc = "update" ->
            LET k == FindOne(db.players, r.id)
                set == [db.players EXCEPT ![k].player_name = r.data.player_name,
                                          ![k].emoji = r.data.emoji]
            IN  IF k = 0 \/ set = db.players
                THEN [db |-> db, r |-> Done(r, 500)]  \* modified_count == 0
                ELSE [db |-> [db EXCEPT !.players = set], r |-> Done(r, 200)]

\* one awaited operation of a running request
Step(db, r) ==
    CASE r.op = "create_session" -> CreateStep(db, r)
      [] r.op = "delete_session" -> DeleteSessionStep(db, r)
      [] r.op = "delete_player" -> DeletePlayerStep(db, r)
      [] r.op = "import" -> ImportStep(db, r)
      [] r.op = "import_csv" -> ImportCsvStep(db, r)
      [] r.op = "create_player" -> CreatePlayerStep(db, r)
      [] r.op = "update_player" -> UpdatePlayerStep(db, r)

\* a handler run from the request's current position to its response
RECURSIVE Run(_, _)
Run(db, r) ==
    IF r.pc = "done" THEN [db |-> db, r |-> r]
    ELSE LET n == Step(db, r) IN Run(n.db, n.r)

\* find(...).sort("game_date", 1): ascending by game_date, sessions of one
\* date in stored order
RECURSIVE SortByDate(_)
SortByDate(ss) ==
    IF Len(ss) = 0 THEN <<>>
    ELSE LET sorted == SortByDate(SubSeq(ss, 1, Len(ss) - 1))
             x == ss[Len(ss)]
             keep == {k \in DOMAIN sorted : ~Before(x.game_date, sorted[k].game_date)}
             n == Cardinality(keep)
         IN  SubSeq(sorted, 1, n) \o <<x>> \o SubSeq(sorted, n + 1, Len(sorted))

\* GET /groups/{group_id}/export: the players, teams and game_sessions lists
ExportGroupData(db, g) ==
    LET InG(d) == d.group_id = g
        ps == SelectSeq(db.players, InG)
        ts == SelectSeq(db.teams, InG)
        ss == SortByDate(SelectSeq(db.sessions, InG))
    IN  [group |-> [id |-> g],
         players |-> [k \in 1..Len(ps) |->
                        [id |-> ps[k].id, total_score |-> ps[k].total_score,
                         games_played |-> ps[k].games_played]],
         teams |-> [k \in 1..Len(ts) |->
                        [id |-> ts[k].id, player_ids |-> ts[k].player_ids,
                         total_score |-> ts[k].total_score,
                         games_played |-> ts[k].games_played]],
         game_sessions |-> [k \in 1..Len(ss) |->
                        [id |-> ss[k].id, game_name |-> ss[k].game_name,
                         game_date |-> IsoFormat(ss[k].game_date),
                         player_scores |-> ss[k].player_scores,
                         team_scores |-> ss[k].team_scores]]]

----------------------------------------------------------------------------
(* The normalization engine.  A normalized score is the quotient of two     *)
(* integers; it is kept as the pair (num, den) with den > 0, which the      *)
(* float division of the code rounds to the nearest double: num = den gives *)
(* exactly 1.0, num = 0 exactly 0.0, and 0 <= num <= den a double in [0, 1].*)

\* mutant: only the individual scores of a session are pooled
SessionScoresPlayersOnly(sess) ==
    [k \in DOMAIN sess.player_scores |-> sess.player_scores[k].score]

\* the scores one session appends to game_scores[game_name]
SessionScores(sess) ==
    [k \in DOMAIN sess.player_scores |-> sess.player_scores[k].score]
        \o [k \in DOMAIN sess.team_scores |-> sess.team_scores[k].score]

\* db.game_sessions.find({"group_id": g})
GroupSessions(db, g) == SelectSeq(db.sessions, LAMBDA d : d.group_id = g)

\* game_scores[name]
RECURSIVE GameScores(_, _)
GameScores(ss, name) ==
    IF Len(ss) = 0 THEN <<>>
    ELSE (IF Head(ss).game_name = name THEN SessionScores(Head(ss)) ELSE <<>>)
            \o GameScores(Tail(ss), name)

Min(scores) == CHOOSE m \in {scores[k] : k \in DOMAIN scores} :
                    \A k \in DOMAIN scores : m <= scores[k]

Max(scores) == CHOOSE m \in {scores[k] : k \in DOMAIN scores} :
                    \A k \in DOMAIN scores : m >= scores[k]

\* game_normalization: one entry per game name with at least one score
GameNormalization(ss) ==
    LET names == {n \in {ss[k].game_name : k \in DOMAIN ss} :
                    Len(GameScores(ss, n)) > 0}
    IN  [n \in names |->
            LET scores == GameScores(ss, n)
            IN  [min |-> Min(scores), max |-> Max(scores),
                 range |-> IF Max(scores) # Min(scores)
                           THEN Max(scores) - Min(scores) ELSE 1]]

\* mutant: a bucket of equal scores maps its scores to one half
NormalizedScoreHalf(raw, n) ==
    IF n.max = n.min THEN [num |-> 1, den |-> 2]
    ELSE [num |-> raw - n.min, den |-> n.range]

\* (raw_score - normalization["min"]) / normalization["range"]
NormalizedScore(raw, n) == [num |-> raw - n.min, den |-> n.range]

----------------------------------------------------------------------------
(* Floats.  A float is kept as the fraction it stands for, in lowest terms  *)
(* with a positive denominator.  The scores of the model give fractions     *)
(* that doubles hold exactly (n / 2^k) wherever a quotient is not 0 or 1    *)
(* by construction, except where noted at the inputs.                       *)

Abs(x) == IF x < 0 THEN 0 - x ELSE x

RECURSIVE Gcd(_, _)
Gcd(a, b) == IF b = 0 THEN a ELSE Gcd(b, a % b)

Float(num, den) ==
    LET g == Gcd(Abs(num), den)
    IN  [num |-> num \div g, den |-> den \div g]

Zero == Float(0, 1)

\* a + b
Plus(a, b) == Float(a.num * b.den + b.num * a.den, a.den * b.den)

\* a / n for an int n > 0
TrueDiv(a, n) == Float(a.num, a.den * n)

\* a < b
Less(a, b) == a.num * b.den < b.num * a.den

\* round(x, digits): to the nearest multiple of 10^-digits, a tie to the even
\* one
Round(x, digits) ==
    LET unit == IF digits = 2 THEN 100 ELSE 1000
        scaled == x.num * unit
        below == scaled \div x.den
        rest == scaled % x.den
        up == 2 * rest > x.den \/ (2 * rest = x.den /\ below % 2 = 1)
    IN  Float(IF up THEN below + 1 ELSE below, unit)

\* int(x): truncation toward zero
Truncate(x) ==
    IF x.num >= 0 THEN x.num \div x.den ELSE 0 - ((0 - x.num) \div x.den)

----------------------------------------------------------------------------
(* Session selection of calculate_normalized_scores.  A filter that is not  *)
(* sent is "" for game_name and 0 for year and month, which the handler     *)
(* treats as None.                                                          *)

\* the characters of the game names and game_name filters of the model
Text ==
    [n \in {"Catan", "catan", "Cat", "Uno"} |->
        CASE n = "Catan" -> <<"C", "a", "t", "a", "n">>
          [] n = "catan" -> <<"c", "a", "t", "a", "n">>
          [] n = "Cat" -> <<"C", "a", "t">>
          [] n = "Uno" -> <<"U", "n", "o">>]

Lower(c) == CASE c = "C" -> "c" [] c = "U" -> "u" [] OTHER -> c

\* {"$regex": pattern, "$options": "i"} for a pattern of letters: the pattern
\* occurs somewhere in the name, whatever the case of the letters
RegexSearch(pattern, name) ==
    LET p == Text[pattern]
        t == Text[name]
    IN  \E at \in 0..(Len(t) - Len(p)) :
            \A j \in DOMAIN p : Lower(t[at + j]) = Lower(p[j])

\* mutant: $lte in place of $lt
InWindowClosed(date, start, end) == ~Before(date, start) /\ ~Before(end, date)

\* {"$gte": start, "$lt": end}
InWindow(date, start, end) == ~Before(date, start) /\ Before(date, end)

\* the game_date condition of the session filter
DateFilter(date, year, month) ==
    IF year # 0
    THEN IF month # 0
         THEN InWindow(date, Datetime(year, month, 1),
                       IF month = 12 THEN Datetime(year + 1, 1, 1)
                       ELSE Datetime(year, month + 1, 1))
         ELSE InWindow(date, Datetime(year, 1, 1), Datetime(year + 1, 1, 1))
    ELSE FALSE  \* game_date = {} holds for no datetime

\* db.game_sessions.find(session_filter)
FindSessions(db, g, game_name, year, month) ==
    SelectSeq(db.sessions,
              LAMBDA d :
                /\ d.group_id = g
                /\ game_name # "" => RegexSearch(game_name, d.game_name)
                /\ (year # 0 \/ month # 0) => DateFilter(d.game_date, year, month))

----------------------------------------------------------------------------
(* player_stats of calculate_normalized_scores: one entry per player id, in *)
(* the order in which the ids are first met.                                *)

\* what the player scores of a session add
PlayerContributions(sess, n) ==
    [k \in DOMAIN sess.player_scores |->
        LET v == NormalizedScore(sess.player_scores[k].score, n)
        IN  [id |-> sess.player_scores[k].player_id,
             normalized |-> Float(v.num, v.den),
             raw |-> sess.player_scores[k].score]]

\* mutant: the normalized share is floored as the raw share is
MemberContributionsFloored(ts, n) ==
    LET v == NormalizedScore(ts.score, n)
        members == Len(ts.player_ids)
    IN  [k \in DOMAIN ts.player_ids |->
            [id |-> ts.player_ids[k],
             normalized |-> Float(v.num \div (v.den * members), 1),
             raw |-> ts.score \div members]]

\* what one team score adds to each of its members
MemberContributions(ts, n) ==
    LET v == NormalizedScore(ts.score, n)
        members == Len(ts.player_ids)
    IN  [k \in DOMAIN ts.player_ids |->
            [id |-> ts.player_ids[k],
             normalized |-> TrueDiv(Float(v.num, v.den), members),
             raw |-> ts.score \div members]]

\* mutant: team scores add nothing to their members
TeamContributionsNone(tss, n) == <<>>

RECURSIVE TeamContributions(_, _)
TeamContributions(tss, n) ==
    IF Len(tss) = 0 THEN <<>>
    ELSE (IF Len(Head(tss).player_ids) > 0
          THEN MemberContributions(Head(tss), n) ELSE <<>>)
            \o TeamContributions(Tail(tss), n)

\* the contributions of the sessions whose game has a normalization entry,
\* in program order
RECURSIVE Contributions(_, _)
Contributions(ss, norm) ==
    IF Len(ss) = 0 THEN <<>>
    ELSE (IF Head(ss).game_name \in DOMAIN norm
          THEN PlayerContributions(Head(ss), norm[Head(ss).game_name])
                \o TeamContributions(Head(ss).team_scores,
                                     norm[Head(ss).game_name])
          ELSE <<>>)
            \o Contributions(Tail(ss), norm)

\* stats[id] += contribution, the entry being created when id is new
RECURSIVE Accumulate(_, _)
Accumulate(stats, cs) ==
    IF Len(cs) = 0 THEN stats
    ELSE LET c == Head(cs)
             at == {k \in DOMAIN stats : stats[k].id = c.id}
             new == [id |-> c.id, total_normalized_score |-> c.normalized,
                     total_raw_score |-> c.raw, games_played |-> 1]
         IN  Accumulate(
                IF at = {} THEN Append(stats, new)
                ELSE [k \in DOMAIN stats |->
                        IF k \in at
                        THEN [stats[k] EXCEPT
                                !.total_normalized_score = Plus(@, c.normalized),
                                !.total_raw_score = @ + c.raw,
                                !.games_played = @ + 1]
                        ELSE stats[k]],
                Tail(cs))

\* calculate_normalized_scores over the selected sessions
CalculateNormalizedScores(ss) ==
    Accumulate(<<>>, Contributions(ss, GameNormalization(ss)))

----------------------------------------------------------------------------
(* Leaderboards and statistics.  LeaderboardEntry declares total_score as   *)
(* an int and the handlers pass it a float: pydantic 1 converts with int(), *)
(* pydantic 2 accepts a float without fractional part only and raises       *)
(* otherwise.  The source pins no version, so both are modelled.            *)

Builds == {"pydantic1", "pydantic2"}

\* validation of a float for an int field
IntField(build, x) ==
    IF x.den = 1 THEN [ok |-> TRUE, value |-> x.num]
    ELSE IF build = "pydantic1" THEN [ok |-> TRUE, value |-> Truncate(x)]
    ELSE [ok |-> FALSE, value |-> 0]

\* total / games if games > 0 else 0
Average(total, games) == IF games > 0 THEN TrueDiv(total, games) ELSE Zero

LeaderboardEntry(id, total_score, games_played, average_score) ==
    [id |-> id, total_score |-> total_score, games_played |-> games_played,
     average_score |-> average_score]

NoEntry == LeaderboardEntry(0, 0, 0, Zero)

\* the entries built from player_stats or team_stats, in iteration order
Entries(stats, build) ==
    [k \in DOMAIN stats |->
        LeaderboardEntry(
            stats[k].id,
            IntField(build, Round(stats[k].total_normalized_score, 2)).value,
            stats[k].games_played,
            Round(Average(stats[k].total_normalized_score,
                          stats[k].games_played), 3))]

\* every LeaderboardEntry(...) of the handler passes validation
Validates(stats, build) ==
    \A k \in DOMAIN stats :
        IntField(build, Round(stats[k].total_normalized_score, 2)).ok

\* mutant: the list is returned in iteration order
Unsorted(entries) == entries

\* leaderboard.sort(key=lambda x: x.total_score, reverse=True): descending,
\* entries of one total_score in their former order
RECURSIVE SortDescending(_)
SortDescending(entries) ==
    IF Len(entries) = 0 THEN <<>>
    ELSE LET sorted == SortDescending(SubSeq(entries, 1, Len(entries) - 1))
             x == entries[Len(entries)]
             n == Cardinality({k \in DOMAIN sorted :
                                sorted[k].total_score >= x.total_score})
         IN  SubSeq(sorted, 1, n) \o <<x>> \o SubSeq(sorted, n + 1, Len(sorted))

\* the response of a read handler: sessions and stats are the handler's
\* locals of those names
Response(op, query, status, found, stats, body) ==
    [op |-> op, query |-> query, status |-> status, sessions |-> found,
     stats |-> stats, body |-> body]

Query(g, game_name, year, month, build) ==
    [group_id |-> g, game_name |-> game_name, year |-> year, month |-> month,
     build |-> build]

\* GET /groups/{group_id}/leaderboard/players
GetPlayerLeaderboard(db, q) ==
    LET found == FindSessions(db, q.group_id, q.game_name, q.year, q.month)
        player_stats == CalculateNormalizedScores(found)
    IN  IF Validates(player_stats, q.build)
        THEN Response("player_leaderboard", q, 200, found, player_stats,
                      SortDescending(Entries(player_stats, q.build)))
        ELSE Response("player_leaderboard", q, 500, found, player_stats, <<>>)

\* the team scores one session appends to game_scores[game_name]
TeamSessionScores(sess) ==
    [k \in DOMAIN sess.team_scores |-> sess.team_scores[k].score]

RECURSIVE TeamGameScores(_, _)
TeamGameScores(ss, name) ==
    IF Len(ss) = 0 THEN <<>>
    ELSE (IF Head(ss).game_name = name THEN TeamSessionScores(Head(ss)) ELSE <<>>)
            \o TeamGameScores(Tail(ss), name)

\* game_normalization of get_team_leaderboard
TeamGameNormalization(ss) ==
    LET names == {n \in {ss[k].game_name : k \in DOMAIN ss} :
                    Len(TeamGameScores(ss, n)) > 0}
    IN  [n \in names |->
            LET scores == TeamGameScores(ss, n)
            IN  [min |-> Min(scores), max |-> Max(scores),
                 range |-> IF Max(scores) # Min(scores)
                           THEN Max(scores) - Min(scores) ELSE 1]]

\* what the team scores of the sessions add to team_stats, in program order
RECURSIVE TeamLeaderboardContributions(_, _)
TeamLeaderboardContributions(ss, norm) ==
    IF Len(ss) = 0 THEN <<>>
    ELSE (IF Head(ss).game_name \in DOMAIN norm
          THEN [k \in DOMAIN Head(ss).team_scores |->
                    LET e == Head(ss).team_scores[k]
                        v == NormalizedScore(e.score, norm[Head(ss).game_name])
                    IN  [id |-> e.team_id, normalized |-> Float(v.num, v.den),
                         raw |-> e.score]]
          ELSE <<>>)
            \o TeamLeaderboardContributions(Tail(ss), norm)

\* GET /groups/{group_id}/leaderboard/teams
GetTeamLeaderboard(db, q) ==
    LET found == GroupSessions(db, q.group_id)
        team_stats == Accumulate(<<>>,
                        TeamLeaderboardContributions(found,
                                                     TeamGameNormalization(found)))
    IN  IF Validates(team_stats, q.build)
        THEN Response("team_leaderboard", q, 200, found, team_stats,
                      SortDescending(Entries(team_stats, q.build)))
        ELSE Response("team_leaderboard", q, 500, found, team_stats, <<>>)

\* the $group/$sort/$limit pipeline: a game of the group with the most
\* sessions, "" for None
MostPlayedGames(db, g) ==
    LET found == GroupSessions(db, g)
        Count(n) == Cardinality({k \in DOMAIN found : found[k].game_name = n})
        names == {found[k].game_name : k \in DOMAIN found}
    IN  IF names = {} THEN {""}
        ELSE {n \in names : \A m \in names : Count(m) <= Count(n)}

\* find_one({"group_id": g}, sort=[("total_score", -1)]): a player of the
\* group with the largest total_score, position 0 for None
TopPlayerDocs(db, g) ==
    LET own == {k \in DOMAIN db.players : db.players[k].group_id = g}
    IN  IF own = {} THEN {0}
        ELSE {k \in own :
                \A j \in own : db.players[j].total_score <= db.players[k].total_score}

\* GET /groups/{group_id}/stats, with the game and the player that the store
\* returned
GetGroupStats(db, q, game, top) ==
    LET found == GroupSessions(db, q.group_id)
        InG(d) == d.group_id = q.group_id
        doc == db.players[top]
        top_player ==
            IF top = 0 THEN NoEntry
            ELSE LeaderboardEntry(doc.id, doc.total_score, doc.games_played,
                    Round(Average(Float(doc.total_score, 1), doc.games_played), 2))
    IN  Response("group_stats", q, 200, found, <<>>,
                 [total_players |-> Len(SelectSeq(db.players, InG)),
                  total_teams |-> Len(SelectSeq(db.teams, InG)),
                  total_games |-> Len(found),
                  most_played_game |-> game,
                  top_player |-> top_player])

\* the PLAYERS, TEAMS and GAME SESSIONS rows of convert_to_csv; :.2f prints
\* the average rounded to two decimals
ConvertToCsv(data) ==
    LET Row(d) == [id |-> d.id, total_score |-> d.total_score,
                   games_played |-> d.games_played,
                   average_score |->
                        Round(Average(Float(d.total_score, 1), d.games_played), 2)]
        SessionRows(e) ==
            [k \in DOMAIN e.player_scores |->
                [game_name |-> e.game_name, game_date |-> e.game_date,
                 id |-> e.player_scores[k].player_id,
                 score |-> e.player_scores[k].score, type |-> "Individual"]]
            \o [k \in DOMAIN e.team_scores |->
                [game_name |-> e.game_name, game_date |-> e.game_date,
                 id |-> e.team_scores[k].team_id,
                 score |-> e.team_scores[k].score, type |-> "Team"]]
    IN  [players |-> [k \in DOMAIN data.players |-> Row(data.players[k])],
         teams |-> [k \in DOMAIN data.teams |-> Row(data.teams[k])],
         game_sessions |-> [k \in DOMAIN data.game_sessions |->
                                SessionRows(data.game_sessions[k])]]

\* GET /groups/{group_id}/download-csv
DownloadGroupCsv(db, q) ==
    IF GroupExists(db, q.group_id)
    THEN Response("download_csv", q, 200, GroupSessions(db, q.group_id), <<>>,
                  ConvertToCsv(ExportGroupData(db, q.group_id)))
    ELSE Response("download_csv", q, 404, <<>>, <<>>, <<>>)

----------------------------------------------------------------------------
(* Inputs of the requests.  Player ids 1 and 2 and team id 1 are the ids of *)
(* the records of Init; 0 is an id no record ever has.                      *)

\* player_scores and team_scores of a request: individual scores; a team
\* score that its two members do not divide; an empty member list; ids without
\* a record beside an existing member; two team scores, one with a member
\* listed twice
ScoreLists ==
    { [ps |-> <<PlayerScore(1, 7), PlayerScore(2, 0 - 3)>>, ts |-> <<>>],
      [ps |-> <<>>, ts |-> <<TeamScore(1, 7, <<1, 2>>)>>],
      [ps |-> <<PlayerScore(2, 7)>>, ts |-> <<TeamScore(1, 0 - 3, <<>>)>>],
      [ps |-> <<PlayerScore(0, 7)>>, ts |-> <<TeamScore(0, 0 - 3, <<0, 1>>)>>],
      [ps |-> <<PlayerScore(1, 2)>>,
       ts |-> <<TeamScore(1, 7, <<2, 2>>), TeamScore(0, 7, <<1>>)>>] }

\* the day a game is played on: the second game on an earlier day than the
\* first
PlayedOn == [n \in GameNames |->
                IF n = "Catan" THEN Datetime(2024, 1, 15) ELSE Datetime(2024, 1, 10)]

\* every score list is sent for the first game, to a stored and to an unknown
\* group; for the second game, the single team score and the individual score
\* beside two team scores are sent to the stored group
SessionPayloads ==
    {p \in {GameSession(0, g, n, PlayedOn[n], sl.ps, sl.ts) :
                g \in GroupRefs, n \in GameNames, sl \in ScoreLists} :
        p.game_name = "Uno" =>
            /\ p.group_id = "g1"
            /\ Len(p.player_scores) + Len(p.team_scores) # 2}

\* the payloads of concurrent requests
AsyncPayloads ==
    { GameSession(0, "g1", "Catan", PlayedOn["Catan"],
                  <<PlayerScore(1, 7), PlayerScore(2, 0 - 3)>>, <<>>),
      GameSession(0, "g1", "Catan", PlayedOn["Catan"],
                  <<>>, <<TeamScore(1, 7, <<1, 2>>)>>),
      GameSession(0, "g1", "Uno", PlayedOn["Uno"],
                  <<PlayerScore(0, 7)>>, <<TeamScore(0, 7, <<0, 1>>)>>) }

----------------------------------------------------------------------------
(* Serial requests *)

NoCkpt == [sid |-> 0, players |-> <<>>, teams |-> <<>>, mixed |-> FALSE]

\* the store after POST /groups, two POST /players and one POST /teams
Init ==
    /\ groups = {"g1"}
    /\ players = <<Player(1, "g1"), Player(2, "g1")>>
    /\ teams = <<Team(1, "g1", <<1, 2>>)>>
    /\ sessions = <<>>
    /\ ids = [p |-> 2, t |-> 1, s |-> 0]
    /\ last = NoRequest
    /\ ckpt = NoCkpt
    /\ reqs = <<>>

\* what a completed request leaves of its frame: an error keeps no session
Completed(r) ==
    IF r.status = 200 THEN r ELSE [r EXCEPT !.sess = NoSession, !.data = NoData]

\* the store after a handler ran to completion
Serve(r) ==
    LET out == Run(DB, r)
    IN  /\ groups' = out.db.groups
        /\ players' = out.db.players
        /\ teams' = out.db.teams
        /\ sessions' = out.db.sessions
        /\ ids' = out.db.ids
        /\ last' = Completed(out.r)

\* POST /game-sessions
CreateGameSession ==
    \E payload \in SessionPayloads :
        /\ ids.s < MaxSessions
        /\ Serve(CreateSessionRequest(payload))
        /\ ckpt' = IF last'.status = 200
                   THEN [sid |-> last'.id, players |-> players, teams |-> teams,
                         mixed |-> FALSE]
                   ELSE NoCkpt
        /\ UNCHANGED reqs

\* DELETE /game-sessions/{session_id}
DeleteGameSession ==
    \E sid \in 1..MaxSessions :
        /\ sid <= ids.s
        /\ Serve(DeleteSessionRequest(sid))
        /\ ckpt' = IF sid = ckpt.sid THEN ckpt ELSE NoCkpt
        /\ UNCHANGED reqs

\* DELETE /players/{player_id}
DeletePlayer ==
    \E pid \in 1..ids.p :
        /\ Serve(DeletePlayerRequest(pid))
        /\ ckpt' = NoCkpt
        /\ UNCHANGED reqs

\* POST /groups/{group_id}/import of an empty export or of the group's own export
ImportGroupData ==
    \E g \in GroupRefs :
        \E data \in {NoData, ExportGroupData(DB, g)} :
            /\ Serve(ImportRequest(g, data))
            /\ ckpt' = NoCkpt
            /\ UNCHANGED reqs

Next ==
    \/ CreateGameSession
    \/ DeleteGameSession
    \/ DeletePlayer
    \/ ImportGroupData

Spec == Init /\ [][Next]_vars

----------------------------------------------------------------------------
(* Concurrent requests: the event loop runs one awaited operation of one    *)
(* running request at a time, in any order.                                 *)

SeedDB ==
    [groups |-> {"g1"},
     players |-> <<Player(1, "g1"), Player(2, "g1")>>,
     teams |-> <<Team(1, "g1", <<1, 2>>)>>,
     sessions |-> <<>>,
     ids |-> [p |-> 2, t |-> 1, s |-> 0]]

\* the store of Init, or that store after one session was recorded
InitAsync ==
    \E seed \in {NoSession} \cup AsyncPayloads :
        LET db == IF seed = NoSession THEN SeedDB
                  ELSE Run(SeedDB, CreateSessionRequest(seed)).db
        IN  /\ groups = db.groups
            /\ players = db.players
            /\ teams = db.teams
            /\ sessions = db.sessions
            /\ ids = db.ids
            /\ last = NoRequest
            /\ ckpt = [sid |-> 0, players |-> db.players, teams |-> db.teams,
                       mixed |-> FALSE]
            /\ reqs = <<>>

StartCreateSession ==
    /\ Len(reqs) < MaxRequests
    /\ \E payload \in AsyncPayloads :
            reqs' = Append(reqs, CreateSessionRequest(payload))
    /\ UNCHANGED <<groups, players, teams, sessions, ids, last, ckpt>>

StartDeleteSession ==
    /\ Len(reqs) < MaxRequests
    /\ \E sid \in 1..ids.s : reqs' = Append(reqs, DeleteSessionRequest(sid))
    /\ UNCHANGED <<groups, players, teams, sessions, ids, last, ckpt>>

StartDeletePlayer ==
    /\ Len(reqs) < MaxRequests
    /\ \E pid \in 1..ids.p : reqs' = Append(reqs, DeletePlayerRequest(pid))
    /\ UNCHANGED <<groups, players, teams, sessions, ids, last, ckpt>>

StartImport ==
    /\ Len(reqs) < MaxRequests
    /\ \E data \in {NoData, ExportGroupData(DB, "g1")} :
            reqs' = Append(reqs, ImportRequest("g1", data))
    /\ UNCHANGED <<groups, players, teams, sessions, ids, last, ckpt>>

\* request k issues a ledger operation while another request is between its
\* first and its last ledger operation
Interleaves(k) ==
    /\ reqs[k].pc = "stats"
    /\ \E j \in DOMAIN reqs : j # k /\ reqs[j].pc = "stats" /\ reqs[j].i > 1

StepRequest ==
    \E k \in DOMAIN reqs :
        /\ reqs[k].pc # "done"
        /\ LET out == Step(DB, reqs[k])
           IN  /\ groups' = out.db.groups
               /\ players' = out.db.players
               /\ teams' = out.db.teams
               /\ sessions' = out.db.sessions
               /\ ids' = out.db.ids
               /\ reqs' = [reqs EXCEPT ![k] = out.r]
        /\ ckpt' = [ckpt EXCEPT !.mixed = @ \/ Interleaves(k)]
        /\ UNCHANGED last

NextAsync ==
    \/ StartCreateSession
    \/ StartDeleteSession
    \/ StartDeletePlayer
    \/ StartImport
    \/ StepRequest

SpecAsync == InitAsync /\ [][NextAsync]_vars

----------------------------------------------------------------------------
(* Read requests.  Sessions are recorded and a file is uploaded by the      *)
(* handlers above, run to completion; a read handler leaves the store as it *)
(* is and its response becomes last.  Player 1 is X and player 2 is Y of    *)
(* the mixed-scale scenario, "Catan" its game A and "Uno" its game B.       *)

\* the sessions sent to the store before it is read: the two sessions of the
\* mixed-scale scenario, dated on the first day of 2024 and of 2025; a session
\* of one team score of one member for a game whose name differs in case, on
\* the first day of February; an individual score beside a team score of two members on the
\* last day of 2024; a team score with no member; two team scores of one game
ReadPayloads ==
    { GameSession(0, "g1", "Catan", Datetime(2024, 1, 1),
                  <<PlayerScore(1, 3), PlayerScore(2, 10)>>, <<>>),
      GameSession(0, "g1", "Uno", Datetime(2025, 1, 1),
                  <<PlayerScore(1, 300), PlayerScore(2, 1000)>>, <<>>),
      GameSession(0, "g1", "catan", Datetime(2024, 2, 1),
                  <<>>, <<TeamScore(1, 3, <<1>>)>>),
      GameSession(0, "g1", "Catan", Datetime(2024, 12, 31),
                  <<PlayerScore(2, 10)>>, <<TeamScore(1, 17, <<1, 2>>)>>),
      GameSession(0, "g1", "Catan", Datetime(2024, 1, 31),
                  <<>>, <<TeamScore(1, 17, <<>>)>>),
      GameSession(0, "g1", "Uno", Datetime(2024, 12, 1),
                  <<>>, <<TeamScore(1, 1000, <<1, 2>>), TeamScore(0, 300, <<2>>)>>) }

\* an uploaded export of the group, taken when its one session had been
\* reverted twice
Uploads ==
    { [group |-> [id |-> "g1"],
       players |-> <<[id |-> 1, total_score |-> 0 - 7, games_played |-> 0 - 1],
                     [id |-> 2, total_score |-> 3, games_played |-> 0 - 1]>>,
       teams |-> <<[id |-> 1, player_ids |-> <<1, 2>>,
                    total_score |-> 0, games_played |-> 0]>>,
       game_sessions |-> <<>>] }

GameNameFilters == {"", "Catan", "Cat"}

\* no window, a year, its first and its last month, a month without a year
Windows ==
    { [year |-> 0, month |-> 0], [year |-> 2024, month |-> 0],
      [year |-> 2024, month |-> 1], [year |-> 2024, month |-> 12],
      [year |-> 0, month |-> 1] }

\* POST /game-sessions
RecordSession ==
    \E payload \in ReadPayloads :
        /\ ids.s < MaxSessions
        /\ Serve(CreateSessionRequest(payload))
        /\ ckpt' = NoCkpt
        /\ UNCHANGED reqs

\* POST /groups/{group_id}/import
UploadGroupData ==
    \E data \in Uploads :
        /\ Serve(ImportRequest("g1", data))
        /\ ckpt' = NoCkpt
        /\ UNCHANGED reqs

PlayerLeaderboard ==
    /\ \E name \in GameNameFilters, w \in Windows, build \in Builds :
            last' = GetPlayerLeaderboard(DB, Query("g1", name, w.year, w.month, build))
    /\ UNCHANGED <<groups, players, teams, sessions, ids, ckpt, reqs>>

TeamLeaderboard ==
    /\ \E build \in Builds :
            last' = GetTeamLeaderboard(DB, Query("g1", "", 0, 0, build))
    /\ UNCHANGED <<groups, players, teams, sessions, ids, ckpt, reqs>>

GroupStats ==
    /\ \E build \in Builds, game \in MostPlayedGames(DB, "g1"),
          top \in TopPlayerDocs(DB, "g1") :
            last' = GetGroupStats(DB, Query("g1", "", 0, 0, build), game, top)
    /\ UNCHANGED <<groups, players, teams, sessions, ids, ckpt, reqs>>

DownloadCsv ==
    /\ \E build \in Builds :
            last' = DownloadGroupCsv(DB, Query("g1", "", 0, 0, build))
    /\ UNCHANGED <<groups, players, teams, sessions, ids, ckpt, reqs>>

NextRead ==
    \/ RecordSession
    \/ UploadGroupData
    \/ PlayerLeaderboard
    \/ TeamLeaderboard
    \/ GroupStats
    \/ DownloadCsv

SpecRead == Init /\ [][NextRead]_vars

----------------------------------------------------------------------------
(* Concurrent create_player and update_player requests on a group that has  *)
(* one player.                                                              *)

PlayerNames == {"Ann", "Bob"}

Emojis == {"e1", "e2"}

InitPlayers ==
    /\ groups = {"g1"}
    /\ players = <<NamedPlayer(1, "g1", "Ann", "e1")>>
    /\ teams = <<>>
    /\ sessions = <<>>
    /\ ids = [p |-> 1, t |-> 0, s |-> 0]
    /\ last = NoRequest
    /\ ckpt = NoCkpt
    /\ reqs = <<>>

StartCreatePlayer ==
    /\ Len(reqs) < MaxRequests
    /\ \E g \in GroupRefs, name \in PlayerNames :
            reqs' = Append(reqs, CreatePlayerRequest(g, name))
    /\ UNCHANGED <<groups, players, teams, sessions, ids, last, ckpt>>

StartUpdatePlayer ==
    /\ Len(reqs) < MaxRequests
    /\ \E pid \in 1..ids.p, name \in PlayerNames, emoji \in Emojis :
            reqs' = Append(reqs, UpdatePlayerRequest(pid, name, emoji))
    /\ UNCHANGED <<groups, players, teams, sessions, ids, last, ckpt>>

NextPlayers ==
    \/ StartCreatePlayer
    \/ StartUpdatePlayer
    \/ StepRequest

SpecPlayers == InitPlayers /\ [][NextPlayers]_vars

----------------------------------------------------------------------------
(* Uploads.  Sessions are recorded, then a JSON file or a CSV file is       *)
(* uploaded to the group; every handler runs to completion.                 *)

\* the file without one of its keys
Without(file, key) == [k \in DOMAIN file \ {key} |-> file[k]]

\* the export of the group, the export with one required key taken out, and
\* a file that is not JSON
ImportFiles ==
    {ExportGroupData(DB, "g1")}
        \cup {Without(ExportGroupData(DB, "g1"), key) : key \in RequiredKeys}
        \cup {[text |-> "{"]}

\* an empty file, a text without a section, a PLAYERS section of one player,
\* and one whose score cell is no number
CsvFiles ==
    { <<>>,
      <<Line("This is not a valid CSV format at all")>>,
      <<Line("PLAYERS"), Line("Player Name,Emoji,Total Score,..."),
        PlayerRow("Ann", 5, 1, TRUE)>>,
      <<Line("PLAYERS"), Line("Player Name,Emoji,Total Score,..."),
        PlayerRow("Ann", 0, 0, FALSE)>> }

\* POST /groups/{group_id}/import
ImportGroupFile ==
    \E file \in ImportFiles :
        /\ Serve(ImportRequest("g1", file))
        /\ ckpt' = NoCkpt
        /\ UNCHANGED reqs

\* POST /groups/{group_id}/import-csv
ImportGroupCsv ==
    \E g \in GroupRefs, file \in CsvFiles :
        /\ ids.p < MaxPlayers
        /\ Serve(ImportCsvRequest(g, file))
        /\ ckpt' = NoCkpt
        /\ UNCHANGED reqs

NextImport ==
    \/ RecordSession
    \/ ImportGroupFile
    \/ ImportGroupCsv

SpecImport == Init /\ [][NextImport]_vars

----------------------------------------------------------------------------
(* What a session is expected to add to the ledger, stated from the         *)
(* specification: every player_scores entry adds its score and one game to  *)
(* its player; every team_scores entry adds its score and one game to its   *)
(* team and, for each occurrence of a player in its stored player_ids,      *)
(* floor(score / len(player_ids)) and one game to that player.              *)

RECURSIVE Sum(_)
Sum(seq) == IF Len(seq) = 0 THEN 0 ELSE Head(seq) + Sum(Tail(seq))

Occurrences(list, v) == Cardinality({k \in DOMAIN list : list[k] = v})

Floor(a, n) == CHOOSE q \in (0 - 10)..10 : q * n <= a /\ a < (q + 1) * n

PlayerShare(sess, pid) ==
    Sum([i \in DOMAIN sess.player_scores |->
            IF sess.player_scores[i].player_id = pid
            THEN sess.player_scores[i].score ELSE 0])
    + Sum([j \in DOMAIN sess.team_scores |->
            IF Len(sess.team_scores[j].player_ids) = 0 THEN 0
            ELSE Occurrences(sess.team_scores[j].player_ids, pid)
                 * Floor(sess.team_scores[j].score,
                         Len(sess.team_scores[j].player_ids))])

PlayerGames(sess, pid) ==
    Occurrences([i \in DOMAIN sess.player_scores |->
                    sess.player_scores[i].player_id], pid)
    + Sum([j \in DOMAIN sess.team_scores |->
            Occurrences(sess.team_scores[j].player_ids, pid)])

TeamShare(sess, tid) ==
    Sum([j \in DOMAIN sess.team_scores |->
            IF sess.team_scores[j].team_id = tid
            THEN sess.team_scores[j].score ELSE 0])

TeamGames(sess, tid) ==
    Occurrences([j \in DOMAIN sess.team_scores |->
                    sess.team_scores[j].team_id], tid)

Ids(coll) == [k \in DOMAIN coll |-> coll[k].id]

\* the ledger moved by sign times the expected shares of sess, and no record
\* was added, removed or reordered
LedgerMoved(sess, sign) ==
    /\ Ids(players') = Ids(players)
    /\ Ids(teams') = Ids(teams)
    /\ \A k \in DOMAIN players :
        /\ players'[k].total_score
             = players[k].total_score + sign * PlayerShare(sess, players[k].id)
        /\ players'[k].games_played
             = players[k].games_played + sign * PlayerGames(sess, players[k].id)
    /\ \A k \in DOMAIN teams :
        /\ teams'[k].total_score
             = teams[k].total_score + sign * TeamShare(sess, teams[k].id)
        /\ teams'[k].games_played
             = teams[k].games_played + sign * TeamGames(sess, teams[k].id)

Created == last'.op = "create_session" /\ last'.status = 200
Deleted == last'.op = "delete_session" /\ last'.status = 200

Exists(coll, id) == FindOne(coll, id) # 0

----------------------------------------------------------------------------
(* C1: a session created and then deleted, with no request in between,      *)
(* leaves every player's and every team's (total_score, games_played) as it *)
(* was before the creation, whatever the payload.                           *)
C1_LedgerConservation ==
    (last.op = "delete_session" /\ last.status = 200 /\ last.id = ckpt.sid)
        => (players = ckpt.players /\ teams = ckpt.teams)

\* a created-then-deleted session with a team score its existing members do
\* not divide
C1_Witness ==
    /\ last.op = "delete_session" /\ last.status = 200 /\ last.id = ckpt.sid
    /\ \E j \in DOMAIN last.sess.team_scores :
        LET e == last.sess.team_scores[j]
        IN  /\ Len(e.player_ids) > 0
            /\ e.score % Len(e.player_ids) # 0
            /\ \A k \in DOMAIN e.player_ids : Exists(players, e.player_ids[k])

(* C2: delete_session reverts the distribution with the member list stored  *)
(* in the session, not the team's current one: the handler holds the stored *)
(* session and every still-existing player loses, per occurrence in a       *)
(* stored player_ids list, floor(score / len(stored player_ids)).           *)
C2_RevertUsesStoredMembers ==
    [][Deleted =>
        /\ Exists(sessions, last'.id)
        /\ last'.sess = sessions[FindOne(sessions, last'.id)]
        /\ LedgerMoved(last'.sess, 0 - 1)]_vars

\* a deleted session whose team lost a member after the session was recorded
C2_Witness ==
    /\ last.op = "delete_session" /\ last.status = 200
    /\ \E j \in DOMAIN last.sess.team_scores :
        LET e == last.sess.team_scores[j]
        IN  /\ Exists(teams, e.team_id)
            /\ Len(teams[FindOne(teams, e.team_id)].player_ids) < Len(e.player_ids)
            /\ \E k \in DOMAIN e.player_ids : Exists(players, e.player_ids[k])
            /\ \E k \in DOMAIN e.player_ids : ~Exists(players, e.player_ids[k])

(* C3: create_session adds floor(S / N) and one game to each member of a    *)
(* team score S with N members, the full S and one game to the team; the    *)
(* members' shares sum to N * floor(S / N) <= S.                            *)
C3_TeamDistribution ==
    [][Created =>
        /\ LedgerMoved(last'.sess, 1)
        /\ \A j \in DOMAIN last'.sess.team_scores :
            LET e == last'.sess.team_scores[j]
                n == Len(e.player_ids)
            IN  n > 0 =>
                    /\ n * Floor(e.score, n) <= e.score
                    /\ e.score - n * Floor(e.score, n) < n]_vars

\* a created session with a team score that its two distinct existing members
\* do not divide
C3_Witness ==
    /\ last.op = "create_session" /\ last.status = 200
    /\ \E j \in DOMAIN last.sess.team_scores :
        LET e == last.sess.team_scores[j]
        IN  /\ Len(e.player_ids) = 2
            /\ e.player_ids[1] # e.player_ids[2]
            /\ e.score % 2 # 0
            /\ Exists(teams, e.team_id)
            /\ \A k \in DOMAIN e.player_ids : Exists(players, e.player_ids[k])

(* C4: a team score with an empty player_ids list raises no error in        *)
(* create_session or delete_session, moves no player's ledger and still     *)
(* moves the team's ledger by the full score and one game.                  *)
C4_EmptyMemberList ==
    [][/\ (last'.op = "create_session" /\ last'.gid \in groups) => last'.status = 200
       /\ (last'.op = "delete_session" /\ Exists(sessions, last'.id))
            => last'.status = 200
       /\ \A sign \in {0 - 1, 1} :
            ( /\ IF sign = 1 THEN Created ELSE Deleted
              /\ \A j \in DOMAIN last'.sess.team_scores :
                    Len(last'.sess.team_scores[j].player_ids) = 0 )
            => /\ \A k \in DOMAIN players :
                    LET own == [i \in DOMAIN last'.sess.player_scores |->
                                  IF last'.sess.player_scores[i].player_id
                                        = players[k].id
                                  THEN last'.sess.player_scores[i].score ELSE 0]
                        played == {i \in DOMAIN own :
                                    last'.sess.player_scores[i].player_id
                                        = players[k].id}
                    IN  /\ players'[k].total_score
                            = players[k].total_score + sign * Sum(own)
                        /\ players'[k].games_played
                            = players[k].games_played + sign * Cardinality(played)
               /\ \A k \in DOMAIN teams :
                    /\ teams'[k].total_score
                        = teams[k].total_score
                            + sign * TeamShare(last'.sess, teams[k].id)
                    /\ teams'[k].games_played
                        = teams[k].games_played
                            + sign * TeamGames(last'.sess, teams[k].id)]_vars

\* a session with an empty member list for an existing team, created and then
\* deleted
C4_Witness ==
    /\ last.op = "delete_session" /\ last.status = 200 /\ last.id = ckpt.sid
    /\ Len(last.sess.team_scores) > 0
    /\ \A j \in DOMAIN last.sess.team_scores :
        /\ Len(last.sess.team_scores[j].player_ids) = 0
        /\ Exists(teams, last.sess.team_scores[j].team_id)

(* C5: create_session naming a group that is not stored answers 404, stores *)
(* no session and changes no player's or team's ledger.                     *)
C5_UnknownGroupRejected ==
    [][(last'.op = "create_session" /\ last'.gid \notin groups)
        => (last'.status = 404 /\ UNCHANGED <<players, teams, sessions>>)]_vars

\* a rejected create_session in a store that holds a session and played games
C5_Witness ==
    /\ last.op = "create_session" /\ last.status = 404
    /\ Len(sessions) > 0
    /\ \E k \in DOMAIN players : players[k].games_played > 0

(* C6: delete_session on an id with no stored session answers 404 and       *)
(* changes nothing; a successful delete_session removes the record, so a    *)
(* second delete_session on the same id answers 404 and the ledger is       *)
(* reverted once.                                                           *)
C6_DeleteMissingSession ==
    [][/\ last'.op = "delete_session" =>
            IF Exists(sessions, last'.id)
            THEN last'.status = 200 /\ ~Exists(sessions', last'.id)
            ELSE last'.status = 404 /\ UNCHANGED <<players, teams, sessions>>
       /\ ( /\ last.op = "delete_session" /\ last.status = 200
            /\ last'.op = "delete_session" /\ last'.id = last.id )
            => (last'.status = 404 /\ UNCHANGED <<players, teams, sessions>>)]_vars

\* the second delete_session of a session that was created and then deleted
C6_Witness ==
    /\ last.op = "delete_session" /\ last.status = 404
    /\ ckpt.sid # 0 /\ last.id = ckpt.sid
    /\ players = ckpt.players /\ teams = ckpt.teams
    /\ \E k \in DOMAIN players : players[k].games_played > 0

\* the session names a player id or a team id that has no record
NamesUnknownId(sess) ==
    \/ \E i \in DOMAIN sess.player_scores :
            ~Exists(players, sess.player_scores[i].player_id)
    \/ \E j \in DOMAIN sess.team_scores :
            \/ ~Exists(teams, sess.team_scores[j].team_id)
            \/ \E k \in DOMAIN sess.team_scores[j].player_ids :
                    ~Exists(players, sess.team_scores[j].player_ids[k])

(* C7: an increment addressed to a player or team id without a record is a  *)
(* silent no-op: the request still answers 200, no record is created for    *)
(* the id, and every existing entity the session names gets its share.      *)
C7_UnknownIdsIgnored ==
    [][/\ last'.op = "create_session" => (last'.status = 200 <=> last'.gid \in groups)
       /\ last'.op = "delete_session"
            => (last'.status = 200 <=> Exists(sessions, last'.id))
       /\ (Created /\ NamesUnknownId(last'.sess)) => LedgerMoved(last'.sess, 1)
       /\ (Deleted /\ NamesUnknownId(last'.sess)) => LedgerMoved(last'.sess, 0 - 1)
       /\ \A k \in DOMAIN players' : players'[k].id # 0
       /\ \A k \in DOMAIN teams' : teams'[k].id # 0]_vars

\* a deleted session that named a team without a record, a member without a
\* record and a member with one
C7_Witness ==
    /\ last.op = "delete_session" /\ last.status = 200
    /\ \E j \in DOMAIN last.sess.team_scores :
        LET e == last.sess.team_scores[j]
        IN  /\ ~Exists(teams, e.team_id)
            /\ \E k \in DOMAIN e.player_ids : ~Exists(players, e.player_ids[k])
            /\ \E k \in DOMAIN e.player_ids :
                    /\ Exists(players, e.player_ids[k])
                    /\ PlayerShare(last.sess, e.player_ids[k]) # 0

(* C8: in every reachable state every player record and every team record  *)
(* has games_played >= 0.                                                   *)
C8_GamesPlayedNonNegative ==
    /\ \A k \in DOMAIN players : players[k].games_played >= 0
    /\ \A k \in DOMAIN teams : teams[k].games_played >= 0

\* the creates of reqs, run one after the other in the order perm
RECURSIVE SerialRun(_, _, _)
SerialRun(db, perm, k) ==
    IF k > Len(reqs) THEN db
    ELSE SerialRun(Run(db, CreateSessionRequest(
                                [reqs[perm[k]].sess EXCEPT !.id = 0])).db,
                   perm, k + 1)

Orders == {f \in [DOMAIN reqs -> DOMAIN reqs] :
            \A i, j \in DOMAIN reqs : i # j => f[i] # f[j]}

AllCreatesCompleted ==
    /\ Len(reqs) >= 2
    /\ \A k \in DOMAIN reqs :
        reqs[k].op = "create_session" /\ reqs[k].pc = "done" /\ reqs[k].status = 200

\* the player is named by a player score or a member list of the session
References(sess, pid) == PlayerGames(sess, pid) > 0

(* C9: when two or more concurrent create_session calls have all completed, *)
(* whatever the order in which their ledger increments ran, each player's   *)
(* total_score and games_played are the values before the calls plus the    *)
(* sum of the calls' contributions, and the ledger is the one that every    *)
(* serial order of the calls produces.                                      *)
C9_ConcurrentCreatesConverge ==
    AllCreatesCompleted =>
        /\ Ids(players) = Ids(ckpt.players)
        /\ \A k \in DOMAIN players :
            /\ players[k].total_score
                 = ckpt.players[k].total_score
                   + Sum([j \in DOMAIN reqs |-> PlayerShare(reqs[j].sess, players[k].id)])
            /\ players[k].games_played
                 = ckpt.players[k].games_played
                   + Sum([j \in DOMAIN reqs |-> PlayerGames(reqs[j].sess, players[k].id)])
        /\ \A perm \in Orders :
            LET serial == SerialRun([DB EXCEPT !.players = ckpt.players,
                                               !.teams = ckpt.teams], perm, 1)
            IN  players = serial.players /\ teams = serial.teams

\* completed calls that all moved the ledger of one existing player, one of
\* them sending an increment between two increments of another
C9_Witness ==
    /\ AllCreatesCompleted
    /\ ckpt.mixed
    /\ \E k \in DOMAIN players :
        /\ \A j \in DOMAIN reqs : References(reqs[j].sess, players[k].id)
        /\ players[k].games_played >= ckpt.players[k].games_played + 2

\* the sessions of group g1 together with the bucket of each
Buckets ==
    LET ss == GroupSessions(DB, "g1")
        norm == GameNormalization(ss)
    IN  {[sess |-> ss[k], n |-> norm[ss[k].game_name]] :
            k \in {i \in DOMAIN ss : ss[i].game_name \in DOMAIN norm}}

\* every score recorded in the session
ScoresOf(sess) ==
    {sess.player_scores[k].score : k \in DOMAIN sess.player_scores}
        \cup {sess.team_scores[k].score : k \in DOMAIN sess.team_scores}

(* C10: in a game-name bucket whose pooled scores have max # min, the       *)
(* normalized value of every score of the bucket lies in [0, 1], is 1 for   *)
(* a score equal to the bucket max and 0 for a score equal to the bucket    *)
(* min.                                                                     *)
C10_NormalizationRange ==
    \A b \in Buckets :
        b.n.max # b.n.min =>
            \A raw \in ScoresOf(b.sess) :
                LET v == NormalizedScore(raw, b.n)
                IN  /\ v.den > 0
                    /\ 0 <= v.num /\ v.num <= v.den
                    /\ v.den = b.n.max - b.n.min
                    /\ (raw = b.n.max) => v.num = v.den
                    /\ (raw = b.n.min) => v.num = 0
                    /\ (v.num = v.den) => raw = b.n.max

\* a bucket pooled from two sessions: its max is a team score of one session,
\* its negative min a team score of the other, and an individual score lies
\* strictly between them
C10_Witness ==
    /\ Len(sessions) = 2
    /\ sessions[1].game_name = sessions[2].game_name
    /\ \E b \in Buckets :
        /\ \E k \in DOMAIN b.sess.team_scores :
                b.sess.team_scores[k].score = b.n.max
        /\ \E k \in DOMAIN b.sess.player_scores :
            LET v == NormalizedScore(b.sess.player_scores[k].score, b.n)
            IN  0 < v.num /\ v.num < v.den
        /\ b.n.min < 0
        /\ \E c \in Buckets :
            /\ c.sess # b.sess
            /\ \E k \in DOMAIN c.sess.team_scores :
                    c.sess.team_scores[k].score = b.n.min

----------------------------------------------------------------------------
(* Claims about the read handlers, stated on the response held by last.     *)

PlayerBoard == last.op = "player_leaderboard"
TeamBoard == last.op = "team_leaderboard"

\* the scores of the sessions ss of game name: all of them, or the team
\* scores only
PooledScores(ss, name) ==
    UNION {ScoresOf(ss[k]) : k \in {i \in DOMAIN ss : ss[i].game_name = name}}

PooledTeamScores(ss, name) ==
    UNION {{ss[k].team_scores[j].score : j \in DOMAIN ss[k].team_scores} :
            k \in {i \in DOMAIN ss : ss[i].game_name = name}}

NamesOf(ss) == {ss[k].game_name : k \in DOMAIN ss}

(* C11: a game-name bucket whose pooled scores are all equal, a bucket of a *)
(* single score included, gets range 1 and each of its scores normalizes to *)
(* 0, in calculate_normalized_scores and in get_team_leaderboard alike; no  *)
(* value is 1/2 and no range is 0.                                          *)
C11_DegenerateBucket ==
    /\ PlayerBoard =>
        LET norm == GameNormalization(last.sessions)
        IN  /\ \A n \in DOMAIN norm : norm[n].range > 0
            /\ \A n \in DOMAIN norm :
                Cardinality(PooledScores(last.sessions, n)) = 1 =>
                    /\ norm[n].range = 1
                    /\ \A raw \in PooledScores(last.sessions, n) :
                        NormalizedScore(raw, norm[n]) = [num |-> 0, den |-> 1]
            /\ (\A n \in NamesOf(last.sessions) :
                    Cardinality(PooledScores(last.sessions, n)) <= 1)
                => \A k \in DOMAIN last.stats :
                        last.stats[k].total_normalized_score = Zero
    /\ TeamBoard =>
        LET norm == TeamGameNormalization(last.sessions)
        IN  /\ \A n \in DOMAIN norm : norm[n].range > 0
            /\ \A n \in DOMAIN norm :
                Cardinality(PooledTeamScores(last.sessions, n)) = 1 =>
                    /\ norm[n].range = 1
                    /\ \A raw \in PooledTeamScores(last.sessions, n) :
                        NormalizedScore(raw, norm[n]) = [num |-> 0, den |-> 1]
            /\ (\A n \in NamesOf(last.sessions) :
                    Cardinality(PooledTeamScores(last.sessions, n)) <= 1)
                => \A k \in DOMAIN last.stats :
                        last.stats[k].total_normalized_score = Zero

\* a team leaderboard over two sessions of one game whose team scores are
\* equal: the team played twice and its normalized total is 0
C11_Witness ==
    /\ TeamBoard /\ last.status = 200
    /\ Len(last.sessions) = 2
    /\ last.sessions[1].game_name = last.sessions[2].game_name
    /\ Cardinality(PooledTeamScores(last.sessions, last.sessions[1].game_name)) = 1
    /\ \E k \in DOMAIN last.stats :
        /\ last.stats[k].games_played = 2
        /\ last.stats[k].total_normalized_score = Zero

(* C12: the team leaderboard normalizes a team score with the min and max   *)
(* of the pool of all player scores and team scores of the game, as the     *)
(* player path does, so a team score has one normalized value on both       *)
(* paths over the same sessions.                                            *)
C12_TeamBoardUsesPooledRange ==
    TeamBoard =>
        \A k \in DOMAIN last.sessions :
            \A j \in DOMAIN last.sessions[k].team_scores :
                LET raw == last.sessions[k].team_scores[j].score
                    name == last.sessions[k].game_name
                    onPlayerPath == NormalizedScore(raw,
                                        GameNormalization(last.sessions)[name])
                    onTeamPath == NormalizedScore(raw,
                                        TeamGameNormalization(last.sessions)[name])
                IN  Float(onPlayerPath.num, onPlayerPath.den)
                        = Float(onTeamPath.num, onTeamPath.den)

(* C13: with a game_name filter the player leaderboard selects exactly the  *)
(* sessions of the group whose game_name equals the filter, case and whole  *)
(* string.                                                                  *)
C13_ExactGameNameFilter ==
    (PlayerBoard /\ last.query.game_name # "" /\ last.query.year = 0
        /\ last.query.month = 0) =>
        last.sessions = SelectSeq(sessions,
                            LAMBDA d : /\ d.group_id = last.query.group_id
                                       /\ d.game_name = last.query.game_name)

\* a date as the number yyyymmdd
DayNumber(date) == date[1] * 10000 + date[2] * 100 + date[3]

\* the first day of the window of a year, or of a month of a year, and the
\* first day after it
WindowStart(year, month) ==
    IF month = 0 THEN year * 10000 + 101 ELSE year * 10000 + month * 100 + 1

WindowEnd(year, month) ==
    IF month = 0 \/ month = 12 THEN (year + 1) * 10000 + 101
    ELSE year * 10000 + (month + 1) * 100 + 1

(* C14: with a year, or a year and a month, the player leaderboard selects  *)
(* exactly the sessions (of the group, passing the game_name filter) with   *)
(* start <= game_date < end, where start is the first day of the year or    *)
(* month and end the first day of the next year or month, Jan 1 of year + 1 *)
(* for month 12.                                                            *)
C14_DateWindowClosedOpen ==
    (PlayerBoard /\ last.query.year # 0) =>
        LET q == last.query
        IN  last.sessions =
                SelectSeq(FindSessions(DB, q.group_id, q.game_name, 0, 0),
                          LAMBDA d :
                            /\ WindowStart(q.year, q.month) <= DayNumber(d.game_date)
                            /\ DayNumber(d.game_date) < WindowEnd(q.year, q.month))

\* the leaderboard of December 2024 over a session of 2024-12-01, selected,
\* and one of 2025-01-01, left out
C14_Witness ==
    /\ PlayerBoard /\ last.query.year = 2024 /\ last.query.month = 12
    /\ \E k \in DOMAIN last.sessions :
            last.sessions[k].game_date = Datetime(2024, 12, 1)
    /\ \E k \in DOMAIN sessions :
        /\ sessions[k].game_date = Datetime(2025, 1, 1)
        /\ \A j \in DOMAIN last.sessions : last.sessions[j] # sessions[k]

RECURSIVE SumFloats(_)
SumFloats(fs) == IF Len(fs) = 0 THEN Zero ELSE Plus(Head(fs), SumFloats(Tail(fs)))

\* floor(a / n) for n > 0
FloorDiv(a, n) == CHOOSE q \in (0 - Abs(a))..Abs(a) : q * n <= a /\ a < (q + 1) * n

\* what the scores of one session are to add for player id, a score after a
\* score: the normalized value, the raw value and the games counted
SharesOf(sess, n, id) ==
    [k \in DOMAIN sess.player_scores |->
        LET e == sess.player_scores[k]
        IN  IF e.player_id = id
            THEN [normalized |-> Float(e.score - n.min, n.range),
                  raw |-> e.score, games |-> 1]
            ELSE [normalized |-> Zero, raw |-> 0, games |-> 0]]
    \o [k \in DOMAIN sess.team_scores |->
        LET e == sess.team_scores[k]
            members == Len(e.player_ids)
            times == Occurrences(e.player_ids, id)
        IN  IF times > 0
            THEN [normalized |-> Float(times * (e.score - n.min), n.range * members),
                  raw |-> times * FloorDiv(e.score, members), games |-> times]
            ELSE [normalized |-> Zero, raw |-> 0, games |-> 0]]

RECURSIVE SharesOfAll(_, _, _)
SharesOfAll(ss, norm, id) ==
    IF Len(ss) = 0 THEN <<>>
    ELSE SharesOf(Head(ss), norm[Head(ss).game_name], id)
            \o SharesOfAll(Tail(ss), norm, id)

ScoredIds(sess) ==
    {sess.player_scores[k].player_id : k \in DOMAIN sess.player_scores}
        \cup UNION {{sess.team_scores[k].player_ids[j] :
                        j \in DOMAIN sess.team_scores[k].player_ids} :
                    k \in DOMAIN sess.team_scores}

(* C16: the normalization output has an entry for a player id exactly when  *)
(* the id is in player_scores or in a non-empty player_ids list of a        *)
(* team score of a selected session; every entry has games_played >= 1; a   *)
(* player of the group in no selected session has no entry.                 *)
C16_EntryIffAppears ==
    PlayerBoard =>
        LET appearing == UNION {ScoredIds(last.sessions[k]) : k \in DOMAIN last.sessions}
            listed == {last.stats[k].id : k \in DOMAIN last.stats}
        IN  /\ listed = appearing
            /\ \A k \in DOMAIN last.stats : last.stats[k].games_played >= 1
            /\ \A k, j \in DOMAIN last.stats : last.stats[k].id = last.stats[j].id => k = j
            /\ \A p \in DOMAIN players :
                (players[p].group_id = last.query.group_id
                    /\ players[p].id \notin appearing)
                    => players[p].id \notin listed

\* player 1 is in the output through the member list of a team score only,
\* and player 2 of the same group, in no selected session, is not in it
C16_Witness ==
    /\ PlayerBoard /\ Len(last.sessions) >= 1
    /\ \E k \in DOMAIN last.stats : last.stats[k].id = 1
    /\ \A k \in DOMAIN last.sessions :
        \A j \in DOMAIN last.sessions[k].player_scores :
            last.sessions[k].player_scores[j].player_id # 1
    /\ \E p \in DOMAIN players :
        /\ players[p].id = 2 /\ players[p].group_id = last.query.group_id
        /\ \A k \in DOMAIN last.stats : last.stats[k].id # 2

\* the place of the entry of id in the returned list, 0 when it has none
PlaceOf(body, id) ==
    IF \E k \in DOMAIN body : body[k].id = id
    THEN CHOOSE k \in DOMAIN body : body[k].id = id
    ELSE 0

(* C17: both leaderboards return their entries in descending order of the   *)
(* total normalized score: of two entries the one whose total is strictly   *)
(* larger comes first, and entries of equal totals stay in iteration order. *)
C17_SortedByNormalizedTotal ==
    (PlayerBoard \/ TeamBoard) =>
        \A a, b \in DOMAIN last.stats :
            LET x == last.stats[a]
                y == last.stats[b]
                before == /\ PlaceOf(last.body, x.id) > 0
                          /\ PlaceOf(last.body, y.id) > 0
                          /\ PlaceOf(last.body, x.id) < PlaceOf(last.body, y.id)
            IN  /\ Less(y.total_normalized_score, x.total_normalized_score) => before
                /\ (x.total_normalized_score = y.total_normalized_score /\ a < b)
                        => before

\* the selected sessions are the two of the mixed-scale scenario: game A with
\* X = 3 and Y = 10, game B with X = 300 and Y = 1000, individual scores only
MixedScale ==
    /\ PlayerBoard
    /\ Len(last.sessions) = 2
    /\ \E a, b \in DOMAIN last.sessions :
        /\ last.sessions[a].game_name = "Catan"
        /\ last.sessions[a].player_scores = <<PlayerScore(1, 3), PlayerScore(2, 10)>>
        /\ last.sessions[a].team_scores = <<>>
        /\ last.sessions[b].game_name = "Uno"
        /\ last.sessions[b].player_scores = <<PlayerScore(1, 300), PlayerScore(2, 1000)>>
        /\ last.sessions[b].team_scores = <<>>

(* C18: over the two sessions of the mixed-scale scenario the engine gives  *)
(* X the normalized total 0 and Y the total 2, each with games_played 2,    *)
(* and the player leaderboard lists Y before X.                             *)
C18_MixedScaleFairness ==
    MixedScale =>
        /\ {[id |-> last.stats[k].id,
             total |-> last.stats[k].total_normalized_score,
             games |-> last.stats[k].games_played] : k \in DOMAIN last.stats}
                = {[id |-> 1, total |-> Zero, games |-> 2],
                   [id |-> 2, total |-> Float(2, 1), games |-> 2]}
        /\ Len(last.stats) = 2
        /\ last.status = 200
        /\ Len(last.body) = 2
        /\ last.body[1].id = 2 /\ last.body[1].total_score = 2
        /\ last.body[2].id = 1 /\ last.body[2].total_score = 0

\* the unfiltered leaderboard of the scenario, game A recorded first
C18_Witness ==
    /\ MixedScale
    /\ last.query.game_name = "" /\ last.query.year = 0 /\ last.query.month = 0
    /\ last.sessions[1].game_name = "Catan"
    /\ last.stats[1].id = 1

\* the unfiltered player leaderboard of the group the statistics are of
BoardOfGroup ==
    GetPlayerLeaderboard(DB, Query(last.query.group_id, "", 0, 0,
                                   last.query.build)).body

(* C19: the top_player of group_stats is the player of the first entry of   *)
(* the player leaderboard of the group, and there is no top_player exactly  *)
(* when that leaderboard is empty.                                          *)
C19_TopPlayerHeadsLeaderboard ==
    last.op = "group_stats" =>
        /\ last.body.top_player = NoEntry <=> BoardOfGroup = <<>>
        /\ BoardOfGroup # <<>> => last.body.top_player.id = BoardOfGroup[1].id

\* total / games for games # 0, rounded as the path rounds it
QuotientOf(total, games, digits) ==
    Round(IF games > 0 THEN TrueDiv(total, games)
          ELSE TrueDiv(Float(0 - total.num, total.den), 0 - games),
          digits)

\* the average the claim gives an entity
ClaimedAverage(total, games, digits) ==
    IF games = 0 THEN Zero ELSE QuotientOf(total, games, digits)

(* C20: on every path that computes an average (the two leaderboards, the   *)
(* top player of group_stats, the player and team rows of the CSV export)   *)
(* an entity with games_played = 0 has average_score 0, and any other has   *)
(* its total divided by games_played.                                       *)
C20_AverageGuard ==
    /\ ((PlayerBoard \/ TeamBoard) /\ last.status = 200) =>
        \A k \in DOMAIN last.stats :
            \E e \in {last.body[j] : j \in DOMAIN last.body} :
                /\ e.id = last.stats[k].id
                /\ e.average_score
                    = ClaimedAverage(last.stats[k].total_normalized_score,
                                     last.stats[k].games_played, 3)
    /\ (last.op = "group_stats" /\ last.body.top_player # NoEntry) =>
        LET e == last.body.top_player
        IN  e.average_score
                = ClaimedAverage(Float(e.total_score, 1), e.games_played, 2)
    /\ (last.op = "download_csv" /\ last.status = 200) =>
        \A e \in {last.body.players[k] : k \in DOMAIN last.body.players}
                    \cup {last.body.teams[k] : k \in DOMAIN last.body.teams} :
            e.average_score
                = ClaimedAverage(Float(e.total_score, 1), e.games_played, 2)

----------------------------------------------------------------------------
(* Claims about delete_player, import and the order of a handler's steps.   *)

\* the totals of the ledger records, record by record
Totals(coll) ==
    [k \in DOMAIN coll |->
        [id |-> coll[k].id, total_score |-> coll[k].total_score,
         games_played |-> coll[k].games_played]]

(* C21: after delete_player(P) completed on an existing player P there is   *)
(* no player record P, no team lists P in player_ids and no stored session  *)
(* has a player_scores entry of P; the total_score and games_played of the  *)
(* remaining players and of the teams are as they were.                     *)
C21_DeletePlayerFrame ==
    [][(last'.op = "delete_player" /\ last'.status = 200) =>
        LET pid == last'.id
            Other(d) == d.id # pid
        IN  /\ Exists(players, pid)
            /\ ~Exists(players', pid)
            /\ \A k \in DOMAIN teams' :
                \A j \in DOMAIN teams'[k].player_ids : teams'[k].player_ids[j] # pid
            /\ \A k \in DOMAIN sessions' :
                \A j \in DOMAIN sessions'[k].player_scores :
                    sessions'[k].player_scores[j].player_id # pid
            /\ players' = SelectSeq(players, Other)
            /\ Totals(teams') = Totals(teams)]_vars

\* player P was deleted after a session gave scores to P, to another player
\* and to their team: the other player and the team keep what they had
C21_Witness ==
    /\ last.op = "delete_player" /\ last.status = 200
    /\ \E k \in DOMAIN sessions :
        \E j \in DOMAIN sessions[k].team_scores :
            \E m \in DOMAIN sessions[k].team_scores[j].player_ids :
                sessions[k].team_scores[j].player_ids[m] = last.id
    /\ \E k \in DOMAIN players : players[k].games_played > 0
    /\ \E k \in DOMAIN teams :
        teams[k].games_played > 0 /\ Len(teams[k].player_ids) = 1

\* the store after the step
DBAfter == [groups |-> groups', players |-> players', teams |-> teams',
            sessions |-> sessions', ids |-> ids']

\* the step is a completed import into g1 of the export of g1
RoundTrip ==
    /\ last'.op = "import" /\ last'.status = 200 /\ last'.gid = "g1"
    /\ last'.data = ExportGroupData(DB, "g1")

\* the documents of coll that belong to group g
OfGroup(coll, g) == SelectSeq(coll, LAMBDA d : d.group_id = g)

(* C22: importing into a group the export of that group leaves the group    *)
(* with the same player, team and session records, hence the same ledger    *)
(* and the same player and team leaderboards, and the counts of the         *)
(* response are the numbers of records the group then holds.                *)
C22_JsonRoundTrip ==
    [][RoundTrip =>
        /\ OfGroup(players', "g1") = OfGroup(players, "g1")
        /\ OfGroup(teams', "g1") = OfGroup(teams, "g1")
        /\ {sessions'[k] : k \in DOMAIN sessions'} = {sessions[k] : k \in DOMAIN sessions}
        /\ Len(sessions') = Len(sessions)
        /\ Len(last'.data.players) = Len(OfGroup(players', "g1"))
        /\ Len(last'.data.teams) = Len(OfGroup(teams', "g1"))
        /\ Len(last'.data.game_sessions) = Len(OfGroup(sessions', "g1"))
        /\ \A build \in Builds :
            LET q == Query("g1", "", 0, 0, build)
            IN  /\ GetPlayerLeaderboard(DBAfter, q).body
                        = GetPlayerLeaderboard(DB, q).body
                /\ GetTeamLeaderboard(DBAfter, q).body
                        = GetTeamLeaderboard(DB, q).body]_vars

\* the uploaded file has no line that opens a section
NoSection(file) ==
    \A k \in DOMAIN file :
        file[k].text \notin {"GROUP INFORMATION", "PLAYERS", "TEAMS", "GAME SESSIONS"}

(* C23: import_group_csv on an existing group with a file that is no valid  *)
(* export, a text without a recognizable section or an empty file, answers  *)
(* an error status, 400 or 500, and not a successful import.                *)
C23_CsvImportRejectsInvalid ==
    [][\A g \in GroupRefs, file \in CsvFiles :
        ( /\ g \in groups
          /\ NoSection(file)
          /\ last' = Completed(Run(DB, ImportCsvRequest(g, file)).r) )
            => last'.status \in {400, 500}]_vars

(* C30: import_group_data on an existing group with a JSON file that lacks  *)
(* one of the keys group, players, teams, game_sessions answers 400 and     *)
(* leaves the stored players, teams and sessions of the group as they are.  *)
C30_ImportMissingKeyRejected ==
    [][\A key \in RequiredKeys :
        LET file == Without(ExportGroupData(DB, "g1"), key)
        IN  ("g1" \in groups
                /\ last' = Completed(Run(DB, ImportRequest("g1", file)).r))
            => /\ last'.status = 400
               /\ UNCHANGED <<players, teams, sessions>>]_vars

(* C24: in every reachable state no two player records of one group have    *)
(* the same player_name, whatever the interleaving of concurrent            *)
(* create_player and update_player requests.                                *)
C24_PlayerNameUnique ==
    \A k, j \in DOMAIN players :
        (players[k].group_id = players[j].group_id
            /\ players[k].player_name = players[j].player_name) => k = j

\* request k performs the step
StepOf(k) == k \in DOMAIN reqs /\ reqs'[k] # reqs[k]

\* create_session sends an increment only after it stored its session, and
\* delete_session removes the session only after its last decrement
LedgerPhaseOrder ==
    \A k \in DOMAIN reqs :
        /\ (StepOf(k) /\ reqs[k].op = "create_session"
                /\ (players' # players \/ teams' # teams))
            => (reqs[k].pc = "stats" /\ reqs[k].id # 0)
        /\ (StepOf(k) /\ reqs[k].op = "delete_session" /\ sessions' # sessions)
            => /\ reqs[k].pc = "delete"
               /\ reqs[k].i \in {0, Len(RevertOps(DB, reqs[k].sess))}

\* the session of every create_session and delete_session that is in its
\* ledger phase is stored
SessionPresentInLedgerPhase ==
    \A k \in DOMAIN reqs :
        (reqs[k].op \in {"create_session", "delete_session"}
            /\ reqs[k].pc = "stats") => Exists(sessions, reqs[k].id)

(* C25: create_session inserts the session record before its first ledger   *)
(* increment and delete_session removes the record only after its last      *)
(* ledger decrement; hence in every intermediate state of the ledger phase  *)
(* of either operation the session record is in the store.                  *)
C25_StepOrdering ==
    [][LedgerPhaseOrder /\ SessionPresentInLedgerPhase']_vars

\* the two requests of the run are completed delete_session calls for one
\* session, which was stored when they started
TwoDeletesOfOneSession ==
    /\ Len(reqs) = 2
    /\ \A k \in DOMAIN reqs : reqs[k].op = "delete_session" /\ reqs[k].pc = "done"
    /\ reqs[1].id = reqs[2].id
    /\ \E k \in DOMAIN reqs : reqs[k].status = 200

\* request k has sent a decrement
AppliedDecrements(k) == reqs[k].i > 0

(* C26: for any interleaving of two concurrent delete_session calls on the   *)
(* same stored session, after both finished every player's and every team's *)
(* total_score and games_played are what they were before the session was   *)
(* created, and at most one of the two calls has applied decrements.        *)
C26_RevertedAtMostOnce ==
    TwoDeletesOfOneSession =>
        /\ Totals(players) = Totals(SeedDB.players)
        /\ Totals(teams) = Totals(SeedDB.teams)
        /\ ~(AppliedDecrements(1) /\ AppliedDecrements(2))

----------------------------------------------------------------------------
(* Sessions of two groups.  The two groups of GroupRefs both exist,         *)
(* the players and the team belong to the first, and sessions are recorded  *)
(* and deleted one request after the other.                                 *)

InitLedger ==
    /\ groups = GroupRefs
    /\ players = <<Player(1, "g1"), Player(2, "g1")>>
    /\ teams = <<Team(1, "g1", <<1, 2>>)>>
    /\ sessions = <<>>
    /\ ids = [p |-> 2, t |-> 1, s |-> 0]
    /\ last = NoRequest
    /\ ckpt = NoCkpt
    /\ reqs = <<>>

NextLedger ==
    \/ CreateGameSession
    \/ DeleteGameSession

SpecLedger == InitLedger /\ [][NextLedger]_vars

(* C28: create_session and delete_session for a session of group G change   *)
(* total_score and games_played only of players and teams whose group_id is *)
(* G; the records of every other group are unchanged, whatever ids the      *)
(* payload contains.                                                        *)
C28_LedgerGroupIsolation ==
    [][(Created \/ Deleted) =>
        /\ \A k \in DOMAIN players :
            players[k].group_id # last'.sess.group_id
                => (k \in DOMAIN players' /\ players'[k] = players[k])
        /\ \A k \in DOMAIN teams :
            teams[k].group_id # last'.sess.group_id
                => (k \in DOMAIN teams' /\ teams'[k] = teams[k])]_vars

\* player_stats[id] of the engine, or the empty entry
StatsOf(stats, id) ==
    IF \E k \in DOMAIN stats : stats[k].id = id
    THEN LET k == CHOOSE k \in DOMAIN stats : stats[k].id = id
         IN  [total_raw_score |-> stats[k].total_raw_score,
              games_played |-> stats[k].games_played]
    ELSE [total_raw_score |-> 0, games_played |-> 0]

\* the sum of the scores of team tid in the sessions ss
RECURSIVE TeamScoreSum(_, _)
TeamScoreSum(ss, tid) ==
    IF Len(ss) = 0 THEN 0
    ELSE TeamShare(Head(ss), tid) + TeamScoreSum(Tail(ss), tid)

\* the ledger of group g agrees with the stored sessions of g
LedgerAgrees(g) ==
    LET stats == CalculateNormalizedScores(GroupSessions(DB, g))
    IN  /\ \A k \in DOMAIN players :
            players[k].group_id = g =>
                /\ players[k].total_score
                    = StatsOf(stats, players[k].id).total_raw_score
                /\ players[k].games_played
                    = StatsOf(stats, players[k].id).games_played
        /\ \A k \in DOMAIN teams :
            teams[k].group_id = g =>
                teams[k].total_score
                    = TeamScoreSum(GroupSessions(DB, g), teams[k].id)

(* C27: starting from a group whose players and teams exist before any      *)
(* session, after any sequence of completed create_session and              *)
(* delete_session calls every player's stored (total_score, games_played)   *)
(* equals the (total_raw_score, games_played) the unfiltered engine derives *)
(* from the stored sessions, (0, 0) without an entry, and every team's      *)
(* stored total_score equals the sum of its scores in the stored sessions.  *)
C27_LedgerAgreesWithSessions == LedgerAgrees("g1")

----------------------------------------------------------------------------
(* The player leaderboard of a group whose players are deleted.             *)

NextBoard ==
    \/ RecordSession
    \/ DeletePlayer
    \/ PlayerLeaderboard

SpecBoard == Init /\ [][NextBoard]_vars

(* C29: every entry of the player leaderboard of a group refers to a player *)
(* record that exists in that group; after delete_player(P) no player       *)
(* leaderboard has an entry with id P, also when P was listed in the        *)
(* player_ids of a stored team score.                                       *)
C29_BoardNamesStoredPlayers ==
    (PlayerBoard /\ last.status = 200) =>
        \A k \in DOMAIN last.body :
            \E p \in DOMAIN players :
                /\ players[p].id = last.body[k].id
                /\ players[p].group_id = last.query.group_id

====
